---- MODULE Spec2Model ----
(***************************************************************************)
(* Notebook cell operations (cellOperations.ts) and the bulk cell edit     *)
(* application (BulkCellEdits) of azuredatastudio.                         *)
(*                                                                         *)
(* Cell indexes and ranges are 0-based and half-open as in the source;     *)
(* the cell sequence itself is a TLA+ sequence (1-based).                  *)
(***************************************************************************)
EXTENDS Integers, Sequences, FiniteSets, TLC

\* ---------------------------------------------------------------- bounds
MaxInitCells == 3
MaxCells == 4
MaxOps == 1
MaxPending == 1
MaxBatch == 3
NumNotebooks == 2
MaxLines == 2
MaxLineLen == 2
MaxSplits == 2
MaxRegistrations == 2
MaxCalls == 2
MaxEntries == 2
MaxDeletes == 2
MaxTermRows == 3
MaxPrints == 4

\* ------------------------------------------------------------- variables
VARIABLES
    cells,        \* the Document: sequence of [handle, kind, text]
    focus,        \* Selection State: focus range [start, end)
    selections,   \* Selection State: sequence of selection ranges
    editing,      \* handles of the cells whose edit state is Editing
    readOnly,     \* editor.isReadOnly / viewModel.options.isReadOnly
    hasModel,     \* notebookEditor.hasModel()
    undoStack,    \* undo entries of the text model
    nextHandle,   \* next fresh cell handle
    steps,        \* number of operations invoked so far, the suspended ones included
    error,        \* TRUE once an operation has thrown
    pending,      \* staged joinCellsWithSurrounds runs waiting at bulkEditService.apply
    last,         \* the operation invoked last, with its arguments and result
    batch,        \* BulkCellEdits._edits
    editorFound,  \* notebooks for which findNotebookEditor yields an editor
    cancelled,    \* BulkCellEdits._token.isCancellationRequested
    bulkPc,       \* position of BulkCellEdits.apply
    bulkIdx,      \* number of groups the loop of apply has finished
    applyCalls,   \* the editor.applyCellEdits calls made, in order
    progress,     \* number of _progress.report calls
    startedAtCancel, \* groups past their cancellation check when cancellation was requested
    textBuffer,   \* cell.textBuffer: the lines of the cell's text
    splitPoints,  \* the split points handed to computeCellLinesContents
    newLineModels, \* what computeCellLinesContents returned
    debugAdapterFactories, \* AdapterManager.debugAdapterFactories: debug type -> factory
    registrations, \* the registerDebugAdapterFactory calls made: types, factory, disposed
    debuggers,    \* AdapterManager.debuggers: per debug type, the Debugger and its enablement
    debuggersAvailable, \* the context key CONTEXT_DEBUGGERS_AVAILABLE
    lookup,       \* the last lookup made on the AdapterManager, with its result
    customTelemetryServices, \* CustomEndpointTelemetryService.customTelemetryServices: endpoint id -> service
    telemetryCalls, \* the publicLog / publicLogError calls made, each with its position
    telemetryCreated, \* the endpoint id of each telemetry service created, in order of creation
    statusElement, \* StatusbarPart.element is set: createContentArea has run
    pendingEntries, \* StatusbarPart.pendingEntries: the keys of the pending entries, in order
    statusAccessors, \* per addEntry call: its accessor, its pending entry and what was done with it
    viewModelEntries, \* the entries added to the view model, in the order of viewModel.add
    statusLast, \* the last call made on the status bar part or on one of its accessors
    xtermActive,  \* LineDataEventAddon._xterm is set: activate has run
    isOsSet,      \* LineDataEventAddon._isOsSet
    fixedOs,      \* the operating system of the setOperatingSystem call that took effect
    csiHandlers,  \* the CSI 'H' handlers registered on the parser and not disposed
    csiRegistered, \* the number of registerCsiHandler calls made
    emitterDisposed, \* the Emitter _onLineData has been disposed: it has no listeners left
    addonDisposed, \* dispose() has run on the addon
    termLines,    \* xterm.buffer.active: the rows of the buffer, each with its isWrapped flag
    termCursor,   \* the cursor: column x and row y = baseY + cursorY
    termPrinted,  \* the number of characters the terminal has printed
    termLast      \* the last call or terminal event, with the onLineData events it fired

cellVars == <<cells, focus, selections, editing, readOnly, hasModel, undoStack,
              nextHandle, steps, error, pending, last>>
bulkVars == <<batch, editorFound, cancelled, bulkPc, bulkIdx, applyCalls, progress,
              startedAtCancel>>
splitVars == <<textBuffer, splitPoints, newLineModels>>
adapterVars == <<debugAdapterFactories, registrations, debuggers, debuggersAvailable,
                 lookup>>
telemetryVars == <<customTelemetryServices, telemetryCalls, telemetryCreated>>
statusVars == <<statusElement, pendingEntries, statusAccessors, viewModelEntries, statusLast>>
termVars == <<xtermActive, isOsSet, fixedOs, csiHandlers, csiRegistered, emitterDisposed,
              addonDisposed, termLines, termCursor, termPrinted, termLast>>
otherVars == <<splitVars, adapterVars, telemetryVars, statusVars, termVars>>
vars == <<cells, focus, selections, editing, readOnly, hasModel, undoStack,
          nextHandle, steps, error, pending, last,
          batch, editorFound, cancelled, bulkPc, bulkIdx, applyCalls, progress,
          startedAtCancel, otherVars>>

\* --------------------------------------------------------------- helpers
Min(a, b) == IF a < b THEN a ELSE b
Max(a, b) == IF a > b THEN a ELSE b

Kinds == {"markup", "code"}
Undefined == [handle |-> 0, kind |-> "undefined", text |-> <<>>]
Null == [null |-> TRUE]
NoArg == -9

Rng(s, e) == [start |-> s, end |-> e]

Reverse(s) == [i \in 1..Len(s) |-> s[Len(s) + 1 - i]]

RECURSIVE Concat(_)
Concat(ss) == IF ss = <<>> THEN <<>> ELSE Head(ss) \o Concat(Tail(ss))

Handles(cs) == {cs[i].handle : i \in 1..Len(cs)}

\* Array.prototype.splice(start, deleteCount, ...items): the clamped start
SpliceStart(s, start) ==
    IF start < 0 THEN Max(Len(s) + start, 0) ELSE Min(start, Len(s))

\* Array.prototype.splice: the clamped delete count
SpliceCount(s, start, cnt) ==
    Min(Max(cnt, 0), Len(s) - SpliceStart(s, start))

\* Array.prototype.splice: the elements removed
SpliceRemoved(s, start, cnt) ==
    SubSeq(s, SpliceStart(s, start) + 1, SpliceStart(s, start) + SpliceCount(s, start, cnt))

\* Array.prototype.splice: the array afterwards
Splice(s, start, cnt, items) ==
    SubSeq(s, 1, SpliceStart(s, start)) \o items
        \o SubSeq(s, SpliceStart(s, start) + SpliceCount(s, start, cnt) + 1, Len(s))

\* editor.cellAt(index): the cell, or undefined outside the Document
CellAt(index) ==
    IF index >= 0 /\ index < Len(cells) THEN cells[index + 1] ELSE Undefined

\* editor.getCellIndex(cell) for a cell given by its handle; -1 when absent
GetCellIndex(h) ==
    IF \E i \in 1..Len(cells) : cells[i].handle = h
    THEN (CHOOSE i \in 1..Len(cells) : cells[i].handle = h) - 1
    ELSE -1

\* editor.getCellsInRange(range): the existing cells of the range
GetCellsInRange(range) ==
    SubSeq(cells, Max(range.start, 0) + 1, Min(range.end, Len(cells)))

\* cellRangeContains(range, other)
CellRangeContains(range, other) ==
    other.start >= range.start /\ other.end <= range.end

\* cellRangesToIndexes(ranges) for one range
RangeIndexes(range) == [i \in 1..(range.end - range.start) |-> range.start + i - 1]

\* expandCellRangesWithHiddenCells(editor, ranges): no cell is folded
ExpandCellRangesWithHiddenCells(ranges) == ranges

\* cloneNotebookCellTextModel(cell): the cell data of a copy
CloneCell(c) == [kind |-> c.kind, text |-> c.text]

\* ------------------------------------------------- the text model applier
ReplaceEdit(index, count, newCells) ==
    [editType |-> "Replace", index |-> index, count |-> count, cells |-> newCells,
     length |-> 0, newIdx |-> 0]

MoveEdit(index, length, newIdx) ==
    [editType |-> "Move", index |-> index, count |-> 0, cells |-> <<>>,
     length |-> length, newIdx |-> newIdx]

\* new cells of a Replace get fresh handles nh, nh+1, ...
WithHandles(datas, nh) ==
    [i \in 1..Len(datas) |->
        [handle |-> nh + i - 1, kind |-> datas[i].kind, text |-> datas[i].text]]

\* one Edit Operation on a cell sequence
ApplyCellEdit(cs, e, nh) ==
    IF e.editType = "Replace"
    THEN Splice(cs, e.index, e.count, WithHandles(e.cells, nh))
    ELSE Splice(Splice(cs, e.index, e.length, <<>>), e.newIdx, 0,
                SpliceRemoved(cs, e.index, e.length))

\* an ordered list of Edit Operations, applied in order
RECURSIVE ApplyEditList(_, _, _)
ApplyEditList(cs, edits, nh) ==
    IF edits = <<>> THEN cs
    ELSE ApplyEditList(ApplyCellEdit(cs, Head(edits), nh), Tail(edits),
                       nh + Len(Head(edits).cells))

RECURSIVE InsertedCount(_)
InsertedCount(edits) ==
    IF edits = <<>> THEN 0 ELSE Len(Head(edits).cells) + InsertedCount(Tail(edits))

UndoEntry(cs, f, sels) == [cells |-> cs, focus |-> f, selections |-> sels]

\* textModel.applyEdits(rawEdits, synchronous, beginSelectionState,
\* endSelectionsComputer, undoRedoGroup, computeUndoRedo): the state afterwards.
\* endState is the value endSelectionsComputer returns.
ApplyEdits(rawEdits, begin, endState, computeUndoRedo) ==
    [cells |-> ApplyEditList(cells, rawEdits, nextHandle),
     focus |-> endState.focus,
     selections |-> endState.selections,
     undoStack |-> IF computeUndoRedo
                   THEN Append(undoStack, UndoEntry(cells, begin.focus, begin.selections))
                   ELSE undoStack,
     nextHandle |-> nextHandle + InsertedCount(rawEdits)]

SelState(f, sels) == [focus |-> f, selections |-> sels]

\* a beginSelectionState that is not the state before the edits
BeginSelectionStateLost == SelState(Rng(0, 0), <<>>)

\* beginSelectionState as every operation passes it:
\* { kind: Index, focus: editor.getFocus(), selections: editor.getSelections() }
BeginSelectionState == SelState(focus, selections)

\* viewModel.updateSelectionsState with an Index state / the end selection
\* state the text model hands to the view: the state is taken as given
UpdateSelectionsState(st) == st

LastRec(op, idx, len, to, ui, dir, kind, res, k) ==
    [op |-> op, idx |-> idx, len |-> len, to |-> to, ui |-> ui, dir |-> dir,
     kind |-> kind, res |-> res, k |-> k, push |-> TRUE]

\* the operations that have run to their end: the invoked ones less the runs
\* suspended at their await
OpsDone == steps - Len(pending)

\* the operation returned early: nothing but the bookkeeping changes
NoOp(l) ==
    /\ last' = l
    /\ steps' = steps + 1
    /\ UNCHANGED <<cells, focus, selections, editing, readOnly, hasModel, undoStack,
                   nextHandle, error, pending>>
    /\ UNCHANGED <<bulkVars, otherVars>>

\* the operation threw before it changed anything
Throw(l) ==
    /\ last' = l
    /\ steps' = steps + 1
    /\ error' = TRUE
    /\ UNCHANGED <<cells, focus, selections, editing, readOnly, hasModel, undoStack,
                   nextHandle, pending>>
    /\ UNCHANGED <<bulkVars, otherVars>>

\* the operation went through textModel.applyEdits with result r
Commit(r, l) ==
    /\ Len(r.cells) <= MaxCells
    /\ cells' = r.cells
    /\ focus' = UpdateSelectionsState(SelState(r.focus, r.selections)).focus
    /\ selections' = UpdateSelectionsState(SelState(r.focus, r.selections)).selections
    /\ undoStack' = r.undoStack
    /\ nextHandle' = r.nextHandle
    /\ last' = l
    /\ steps' = steps + 1
    /\ UNCHANGED <<editing, readOnly, hasModel, error, pending>>
    /\ UNCHANGED <<bulkVars, otherVars>>

\* --------------------------------------------------------- changeCellToKind
\* the Replace edit of one cell by a cell of the new kind with the same text
ChangeKindEdit(idx, kind) ==
    ReplaceEdit(idx, 1, <<[kind |-> kind, text |-> CellAt(idx).text]>>)

\* rawEdits of the selectedCells branch: selected is the sequence of the
\* indexes of context.selectedCells
ChangeKindRawEdits(selected, kind) ==
    LET keep == SelectSeq(selected, LAMBDA i : CellAt(i).kind # kind)
    IN  [j \in 1..Len(keep) |-> ChangeKindEdit(keep[j], kind)]

\* notebookEditor.focusNotebookCell(cell, ...): focus and select that cell
FocusNotebookCell(idx) == SelState(Rng(idx, idx + 1), <<Rng(idx, idx + 1)>>)

ChangeCellToKind(kind, ui, idx, selected) ==
    LET l(res, k) == LastRec("changeCellToKind", idx, Len(selected), NoArg, ui, "", kind, res, k)
    IN
    /\ OpsDone < MaxOps
    /\ IF ~hasModel \/ readOnly
       THEN NoOp(l("noop", 0))
       ELSE IF ui
       THEN IF CellAt(idx).kind = kind
            THEN NoOp(l("noop", 0))
            ELSE LET r == ApplyEdits(<<ChangeKindEdit(idx, kind)>>, BeginSelectionState,
                                     SelState(focus, selections), TRUE)
                     f == FocusNotebookCell(idx)
                 IN  Commit([r EXCEPT !.focus = f.focus, !.selections = f.selections],
                            l("applied", 1))
       ELSE Commit(ApplyEdits(ChangeKindRawEdits(selected, kind), BeginSelectionState,
                              SelState(focus, selections), TRUE),
                   l("applied", Len(ChangeKindRawEdits(selected, kind))))

\* ---------------------------------------------------------- runDeleteAction
\* selections.find(selection => start <= target < end)
ContainingSelection(target) ==
    LET hits == SelectSeq(selections, LAMBDA s : s.start <= target /\ target < s.end)
    IN  IF hits = <<>> THEN Null ELSE Head(hits)

\* selections.reverse().map(selection => Replace(start, end - start, []))
DeleteSelectionEdits(sels) ==
    [i \in 1..Len(sels) |->
        ReplaceEdit(Reverse(sels)[i].start, Reverse(sels)[i].end - Reverse(sels)[i].start, <<>>)]

\* the end selection state of the containing-selection branch, computed on
\* the cells after the edits; nextHandleAfter is 0 when nothing follows
DeleteEndStateContaining(newCells, nextHandleAfter) ==
    IF nextHandleAfter # 0
    THEN LET cellIndex ==
                IF \E i \in 1..Len(newCells) : newCells[i].handle = nextHandleAfter
                THEN (CHOOSE i \in 1..Len(newCells) : newCells[i].handle = nextHandleAfter) - 1
                ELSE -1
         IN  SelState(Rng(cellIndex, cellIndex + 1), <<Rng(cellIndex, cellIndex + 1)>>)
    ELSE IF Len(newCells) # 0
         THEN SelState(Rng(Len(newCells) - 1, Len(newCells)),
                       <<Rng(Len(newCells) - 1, Len(newCells))>>)
         ELSE SelState(Rng(0, 0), <<Rng(0, 0)>>)

\* finalSelections of the branch where the target is outside every selection
DeleteFinalSelections(sels, target) ==
    [i \in 1..Len(sels) |->
        IF sels[i].end <= target THEN sels[i]
        ELSE IF sels[i].start > target THEN Rng(sels[i].start - 1, sels[i].end - 1)
        ELSE Rng(target, target + 1)]

\* newFocus of the branch where the target is outside every selection
DeleteNewFocus(f, target) ==
    IF f.start = target
    THEN IF f.end = Len(cells) THEN Rng(f.start - 1, f.end - 1) ELSE f
    ELSE IF f.start > target THEN Rng(f.start - 1, f.end - 1) ELSE f

\* runDeleteAction(editor, cell) for the cell at index target
RunDeleteActionOn(target) ==
    LET cs == ContainingSelection(target)
        selCells == Concat([i \in 1..Len(selections) |->
                              [j \in 1..(selections[i].end - selections[i].start) |-> 0]])
    IN
    /\ hasModel
    /\ target >= 0 /\ target < Len(cells)
    /\ IF cs # Null
       THEN LET edits == DeleteSelectionEdits(selections)
                nextAfter == IF cs.end >= Len(cells) THEN 0 ELSE CellAt(cs.end).handle
                newCells == ApplyEditList(cells, edits, nextHandle)
            IN  Commit(ApplyEdits(edits, BeginSelectionState,
                                  DeleteEndStateContaining(newCells, nextAfter), TRUE),
                       LastRec("runDeleteAction", target, NoArg, NoArg, FALSE, "", "",
                               "selection", Len(selCells)))
       ELSE Commit(ApplyEdits(<<ReplaceEdit(target, 1, <<>>)>>, BeginSelectionState,
                              SelState(DeleteNewFocus(focus, target),
                                       DeleteFinalSelections(selections, target)), TRUE),
                   LastRec("runDeleteAction", target, NoArg, NoArg, FALSE, "", "",
                           "single", 1))

RunDeleteAction(target) ==
    /\ OpsDone < MaxOps
    /\ RunDeleteActionOn(target)

\* runDeleteAction called again and again on the same editor
RunDeleteActionRepeated(target) ==
    /\ steps < MaxDeletes
    /\ RunDeleteActionOn(target)

\* ------------------------------------------------------------ moveCellRange
\* a Move edit whose target index is counted before the neighbour is removed
MoveRangeEditPreRemoval(range, direction) ==
    IF direction = "up"
    THEN MoveEdit(range.start - 1, 1, range.end)
    ELSE MoveEdit(range.end, 1, range.start + 1)

\* the Move edit: the neighbouring cell jumps over the block
MoveRangeEdit(range, direction) ==
    IF direction = "up"
    THEN MoveEdit(range.start - 1, 1, range.end - 1)
    ELSE MoveEdit(range.end, 1, range.start)

\* finalSelection and newFocus of moveCellRange
MoveRangeEndState(range, direction, f) ==
    IF direction = "up"
    THEN SelState(IF CellRangeContains(range, f) THEN Rng(f.start - 1, f.end - 1)
                  ELSE Rng(range.start - 1, range.start),
                  <<Rng(range.start - 1, range.end - 1)>>)
    ELSE SelState(IF CellRangeContains(range, f) THEN Rng(f.start + 1, f.end + 1)
                  ELSE Rng(range.start + 1, range.start + 2),
                  <<Rng(range.start + 1, range.end + 1)>>)

\* the early returns of moveCellRange after the model and read-only checks
MoveRangeRejected(modelRanges, direction) ==
    \/ modelRanges = <<>>
    \/ modelRanges[1].start = modelRanges[1].end
    \/ direction = "up" /\ modelRanges[1].start = 0
    \/ direction = "down" /\ modelRanges[1].end >= Len(cells)

MoveCellRange(direction) ==
    LET modelRanges == ExpandCellRangesWithHiddenCells(selections)
        l(res) == LastRec("moveCellRange", NoArg, NoArg, NoArg, FALSE, direction, "", res, 0)
    IN
    /\ OpsDone < MaxOps
    /\ IF ~hasModel \/ readOnly \/ MoveRangeRejected(modelRanges, direction)
       THEN NoOp(l("noop"))
       ELSE Commit(ApplyEdits(<<MoveRangeEdit(modelRanges[1], direction)>>, BeginSelectionState,
                              MoveRangeEndState(modelRanges[1], direction, focus), TRUE),
                   l("applied"))

\* ------------------------------------------------------------ copyCellRange
\* the range copyCellRange works on: the context cell (UI) or the first selection
CopyRange(ui, cellIdx) ==
    IF ui THEN Rng(cellIdx, cellIdx + 1)
    ELSE IF ExpandCellRangesWithHiddenCells(selections) = <<>> THEN Null
    ELSE ExpandCellRangesWithHiddenCells(selections)[1]

\* a copy that overwrites the cell behind the range instead of inserting
CopyEditOverwrite(range) ==
    ReplaceEdit(range.end, 1,
                [i \in 1..Len(RangeIndexes(range)) |-> CloneCell(CellAt(RangeIndexes(range)[i]))])

\* the Replace edit inserting the clones of the range's cells after the range
CopyEdit(range) ==
    ReplaceEdit(range.end, 0,
                [i \in 1..Len(RangeIndexes(range)) |-> CloneCell(CellAt(RangeIndexes(range)[i]))])

\* an end selection state that never follows the copies
CopyEndStateKept(range, direction, ui, f, sels) == SelState(f, sels)

\* the end selection state of copyCellRange
CopyEndState(range, direction, ui, f, sels) ==
    IF direction = "up" \/ ui
    THEN SelState(f, sels)
    ELSE SelState(Rng(f.start + (range.end - range.start), f.end + (range.end - range.start)),
                  <<Rng(range.start + (range.end - range.start),
                        range.end + (range.end - range.start))>>)

CopyCellRange(ui, cellIdx, direction) ==
    LET range == CopyRange(ui, cellIdx)
        l(res, k) == LastRec("copyCellRange", cellIdx, NoArg, NoArg, ui, direction, "", res, k)
    IN
    /\ OpsDone < MaxOps
    /\ IF ~hasModel \/ readOnly \/ range = Null
       THEN NoOp(l("noop", 0))
       ELSE IF range.start = range.end
       THEN NoOp(l("noop", 0))
       ELSE IF \E i \in 1..Len(RangeIndexes(range)) : CellAt(RangeIndexes(range)[i]) = Undefined
       THEN Throw(l("throw", 0))
       ELSE Commit(ApplyEdits(<<CopyEdit(range)>>, BeginSelectionState,
                              CopyEndState(range, direction, ui, focus, selections), TRUE),
                   l("applied", range.end - range.start))

\* ------------------------------------------------ insertCell, insertCellAtIndex
\* the Replace edit of insertCellAtIndex
InsertEdit(index, type, source) ==
    ReplaceEdit(index, 0, <<[kind |-> type, text |-> source]>>)

\* the state after insertCellAtIndex(viewModel, index, source, ..., pushUndoStop)
InsertCellAtIndexResult(index, type, source, pushUndoStop) ==
    ApplyEdits(<<InsertEdit(index, type, source)>>, BeginSelectionState,
               SelState(Rng(index, index + 1), <<Rng(index, index + 1)>>), pushUndoStop)

InsertCellAtIndex(index, type, pushUndoStop) ==
    /\ OpsDone < MaxOps
    /\ hasModel
    /\ Commit(InsertCellAtIndexResult(index, type, <<>>, pushUndoStop),
              [LastRec("insertCellAtIndex", index, NoArg, NoArg, FALSE, "", type,
                       "applied", 1) EXCEPT !.push = pushUndoStop])

\* insertIndex of insertCell; no cell is hidden, so the next visible index is index + 1
InsertIndex(index, direction, ui) ==
    IF CellAt(index) # Undefined
    THEN (IF direction = "above" THEN index ELSE index + 1)
    ELSE index

InsertCell(index, type, direction, ui) ==
    LET l(res) == LastRec("insertCell", index, NoArg, InsertIndex(index, direction, ui), ui,
                          direction, type, res, 1)
    IN
    /\ OpsDone < MaxOps
    /\ hasModel
    /\ IF readOnly
       THEN NoOp(l("null"))
       ELSE Commit(InsertCellAtIndexResult(InsertIndex(index, direction, ui), type, <<>>, TRUE),
                   l("applied"))

\* ------------------------------------------------------------ moveCellToIdx
\* a Move edit whose target index is counted before the removal
MoveToIdxEditPreRemoval(index, length, newIdx) ==
    MoveEdit(index, length, IF newIdx > index THEN newIdx - length ELSE newIdx)

\* the Move edit of moveCellToIdx
MoveToIdxEdit(index, length, newIdx) == MoveEdit(index, length, newIdx)

MoveCellToIdx(index, length, newIdx) ==
    LET l(res) == LastRec("moveCellToIdx", index, length, newIdx, FALSE, "", "", res, 0)
    IN
    /\ OpsDone < MaxOps
    /\ hasModel
    /\ IF CellAt(index) = Undefined
       THEN NoOp(l("false"))
       ELSE Commit(ApplyEdits(<<MoveToIdxEdit(index, length, newIdx)>>, BeginSelectionState,
                              SelState(Rng(newIdx, newIdx + 1), <<Rng(newIdx, newIdx + 1)>>),
                              TRUE),
                   l("true"))

\* -------------------------------------------------------------------- undo
\* undo of the newest entry: the Document and the Selection State captured
\* before the batch come back
Undo ==
    /\ undoStack # <<>>
    /\ hasModel
    /\ cells' = undoStack[Len(undoStack)].cells
    /\ focus' = undoStack[Len(undoStack)].focus
    /\ selections' = undoStack[Len(undoStack)].selections
    /\ undoStack' = SubSeq(undoStack, 1, Len(undoStack) - 1)
    /\ last' = LastRec("undo", NoArg, NoArg, NoArg, FALSE, "", "", "applied", 0)
    /\ UNCHANGED <<editing, readOnly, hasModel, nextHandle, steps, error, pending>>
    /\ UNCHANGED <<bulkVars, otherVars>>

\* -------------------------------------------------------- joinNotebookCells
EOL == 0
JNull == [kind |-> "null"]
JThrow == [kind |-> "throw"]

\* cells.map(cell => cell.textBuffer.getEOL() + cell.getText()).join('')
InsertContent(cs) == Concat([i \in 1..Len(cs) |-> <<EOL>> \o cs[i].text])

\* a boundary check that forgets the last cell
JoinBoundaryRejectedAboveOnly(range, direction) ==
    range.start = 0 /\ direction = "above"

\* the range touches the document boundary in the requested direction
JoinBoundaryRejected(range, direction) ==
    \/ range.start = 0 /\ direction = "above"
    \/ range.end = Len(cells) /\ direction = "below"

\* a cell of the range violates the kind constraint
JoinRangeKindRejected(range, constraint) ==
    /\ constraint # "none"
    /\ \E i \in 1..Len(GetCellsInRange(range)) : GetCellsInRange(range)[i].kind # constraint

\* a constraint check that looks at the range only
JoinNeighbourKindUnchecked(neighbour, constraint) == FALSE

\* the neighbouring cell violates the kind constraint
JoinNeighbourKindRejected(neighbour, constraint) ==
    constraint # "none" /\ neighbour.kind # constraint

\* a join that never looks at isReadOnly
JoinReadOnlyIgnored == FALSE

\* if (editor.isReadOnly) return null
JoinReadOnlyRejected == readOnly

\* the value joinNotebookCells resolves to: null, the staged edits, or a
\* TypeError when the neighbouring cell is undefined
JoinNotebookCells(range, direction, constraint) ==
    IF JoinReadOnlyRejected THEN JNull
    ELSE IF GetCellsInRange(range) = <<>> THEN JNull
    ELSE IF JoinBoundaryRejected(range, direction) THEN JNull
    ELSE IF JoinRangeKindRejected(range, constraint) THEN JNull
    ELSE IF direction = "above"
    THEN LET above == CellAt(range.start - 1)
         IN  IF above = Undefined THEN JThrow
             ELSE IF JoinNeighbourKindRejected(above, constraint) THEN JNull
             ELSE [kind |-> "ok",
                   textTarget |-> above.handle,
                   insertContent |-> InsertContent(GetCellsInRange(range)),
                   cellEdit |-> ReplaceEdit(range.start, range.end - range.start, <<>>),
                   cell |-> above.handle,
                   endFocus |-> Rng(range.start - 1, range.start),
                   endSelections |-> <<Rng(range.start - 1, range.start)>>]
    ELSE LET below == CellAt(range.end)
         IN  IF below = Undefined THEN JThrow
             ELSE IF JoinNeighbourKindRejected(below, constraint) THEN JNull
             ELSE [kind |-> "ok",
                   textTarget |-> GetCellsInRange(range)[1].handle,
                   insertContent |->
                       InsertContent(Tail(GetCellsInRange(range)) \o <<below>>),
                   cellEdit |-> ReplaceEdit(range.start + 1, range.end - range.start, <<>>),
                   cell |-> GetCellsInRange(range)[1].handle,
                   endFocus |-> Rng(range.start, range.start + 1),
                   endSelections |-> <<Rng(range.start, range.start + 1)>>]

\* a direct call of the exported joinNotebookCells
JoinNotebookCellsCall(range, direction, constraint) ==
    LET ret == JoinNotebookCells(range, direction, constraint)
        l == LastRec("joinNotebookCells", range.start, range.end - range.start, range.end,
                     FALSE, direction, constraint, ret.kind, 0)
    IN
    /\ steps < MaxOps
    /\ hasModel
    /\ IF ret.kind = "throw" THEN Throw(l) ELSE NoOp(l)

\* --------------------------------------------------- joinCellsWithSurrounds
\* the per-selection loop of the non-UI branch, from selection i down to the
\* first; acc collects edits (text edits and cell edits), cell and cells
RECURSIVE JoinLoop(_, _, _)
JoinLoop(i, direction, acc) ==
    IF i = 0 \/ acc.status # "run" THEN acc
    ELSE LET selection == selections[i]
             containFocus == CellRangeContains(selection, focus)
         IN  IF \/ selection.end >= Len(cells) /\ direction = "below"
                \/ selection.start = 0 /\ direction = "above"
             THEN JoinLoop(i - 1, direction,
                     [acc EXCEPT !.cell = IF containFocus THEN CellAt(focus.start).handle ELSE @,
                                 !.cells = @ \o [j \in 1..Len(GetCellsInRange(selection)) |->
                                                    GetCellsInRange(selection)[j].handle]])
             ELSE LET singleRet == JoinNotebookCells(selection, direction, "none")
                  IN  IF singleRet.kind = "null" THEN [acc EXCEPT !.status = "return"]
                      ELSE IF singleRet.kind = "throw" THEN [acc EXCEPT !.status = "throw"]
                      ELSE JoinLoop(i - 1, direction,
                              [acc EXCEPT !.textEdits = Append(@, [target |-> singleRet.textTarget,
                                                                   text |-> singleRet.insertContent]),
                                          !.cellEdits = Append(@, singleRet.cellEdit),
                                          !.cells = Append(@, singleRet.cell),
                                          !.cell = IF containFocus THEN singleRet.cell ELSE @])

JoinLoopStart ==
    [status |-> "run", textEdits |-> <<>>, cellEdits |-> <<>>, cell |-> 0, cells |-> <<>>]

\* the run staged by joinCellsWithSurrounds (with the Document its edits were
\* computed from), its early return before edits were computed, its return
\* after edits were computed but no cell holds the focus ("dropped"), or its
\* throw
JoinStaged(ui, cellIdx, direction) ==
    IF ui
    THEN LET ret == JoinNotebookCells(Rng(cellIdx, cellIdx + 1), direction, "none")
         IN  IF ret.kind # "ok" THEN [status |-> IF ret.kind = "null" THEN "return" ELSE "throw"]
             ELSE [status |-> "staged", ui |-> TRUE, base |-> cells,
                   textEdits |-> <<[target |-> ret.textTarget, text |-> ret.insertContent]>>,
                   cellEdits |-> <<ret.cellEdit>>,
                   cell |-> ret.cell, cells |-> <<ret.cell>>,
                   endFocus |-> ret.endFocus, endSelections |-> ret.endSelections]
    ELSE IF selections = <<>> THEN [status |-> "return"]
    ELSE LET acc == JoinLoop(Len(selections), direction, JoinLoopStart)
         IN  IF acc.status # "run" THEN [status |-> acc.status]
             ELSE IF acc.textEdits = <<>> THEN [status |-> "return"]
             ELSE IF acc.cell = 0 \/ acc.cells = <<>> THEN [status |-> "dropped"]
             ELSE [status |-> "staged", ui |-> FALSE, base |-> cells,
                   textEdits |-> acc.textEdits, cellEdits |-> acc.cellEdits,
                   cell |-> acc.cell, cells |-> acc.cells,
                   endFocus |-> Rng(0, 0), endSelections |-> <<>>]

\* joinCellsWithSurrounds up to its await of bulkEditService.apply
JoinCellsWithSurrounds(ui, cellIdx, direction) ==
    LET st == JoinStaged(ui, cellIdx, direction)
        l(res) == LastRec("joinCellsWithSurrounds", cellIdx, NoArg, NoArg, ui, direction, "",
                          res, 0)
    IN
    /\ steps < MaxOps
    /\ hasModel
    /\ Len(pending) < MaxPending
    /\ IF st.status = "return" THEN NoOp(l("noop"))
       ELSE IF st.status = "dropped" THEN NoOp(l("dropped"))
       ELSE IF st.status = "throw" THEN Throw(l("throw"))
       ELSE /\ pending' = Append(pending, st)
            /\ last' = l("staged")
            /\ steps' = steps + 1
            /\ UNCHANGED <<cells, focus, selections, editing, readOnly, hasModel, undoStack,
                           nextHandle, error>>
            /\ UNCHANGED <<bulkVars, otherVars>>

\* convertToCellEdit(edits): every edit type of the switch continues, nothing
\* is pushed, the converted list stays empty
ConvertToCellEdit(edits) == SelectSeq(edits, LAMBDA e : FALSE)

\* the text edits of a batch: each appends its text to the cell it targets
RECURSIVE ApplyTextEdits(_, _)
ApplyTextEdits(cs, textEdits) ==
    IF textEdits = <<>> THEN cs
    ELSE ApplyTextEdits(
            [i \in 1..Len(cs) |->
                IF cs[i].handle = Head(textEdits).target
                THEN [cs[i] EXCEPT !.text = @ \o Head(textEdits).text]
                ELSE cs[i]],
            Tail(textEdits))

\* bulkEditService.apply(edits): the text edits reach the cells' buffers, the
\* cell edits reach the Document through BulkCellEdits.apply
BulkEditServiceApply(cs, textEdits, cellEdits) ==
    ApplyEditList(ApplyTextEdits(cs, textEdits), ConvertToCellEdit(cellEdits), nextHandle)

\* the sorted ranges of the maximal runs of indexes in I, from index i on
RECURSIVE IndexesToRanges(_, _, _)
IndexesToRanges(i, I, n) ==
    IF i >= n THEN <<>>
    ELSE IF i \notin I THEN IndexesToRanges(i + 1, I, n)
    ELSE LET e == CHOOSE e \in (i + 1)..n :
                     /\ \A j \in i..(e - 1) : j \in I
                     /\ (e = n \/ e \notin I)
         IN  <<Rng(i, e)>> \o IndexesToRanges(e, I, n)

\* viewModel.updateSelectionsState with a Handle state
UpdateSelectionsStateHandle(cs, primary, hs) ==
    LET idx(h) == IF \E i \in 1..Len(cs) : cs[i].handle = h
                  THEN (CHOOSE i \in 1..Len(cs) : cs[i].handle = h) - 1 ELSE -1
        I == {idx(hs[j]) : j \in 1..Len(hs)} \ {-1}
    IN  SelState(IF idx(primary) = -1 THEN focus ELSE Rng(idx(primary), idx(primary) + 1),
                 IndexesToRanges(0, I, Len(cs)))

\* joinCellsWithSurrounds after bulkEditService.apply has resolved
JoinCommit ==
    /\ pending # <<>>
    /\ LET st == Head(pending)
           cs == BulkEditServiceApply(cells, st.textEdits, st.cellEdits)
           sel == IF st.ui
                  THEN UpdateSelectionsState(SelState(st.endFocus, st.endSelections))
                  ELSE UpdateSelectionsStateHandle(cs, st.cell, st.cells)
       IN  /\ cells' = cs
           /\ focus' = sel.focus
           /\ selections' = sel.selections
           /\ editing' = editing \cup {st.cells[j] : j \in 1..Len(st.cells)}
           /\ pending' = Tail(pending)
           /\ last' = LastRec("joinCommit", NoArg, NoArg, NoArg, st.ui, "", "", "applied", 0)
    /\ UNCHANGED <<readOnly, hasModel, undoStack, nextHandle, steps, error>>
    /\ UNCHANGED <<bulkVars, otherVars>>

\* ------------------------------------------------------------ BulkCellEdits
Notebooks == 1..NumNotebooks

\* groupBy(this._edits, compare by resource): the edits sorted by resource
\* (stable), cut into one group per resource
RECURSIVE GroupsFrom(_, _)
GroupsFrom(edits, r) ==
    IF r > NumNotebooks THEN <<>>
    ELSE LET g == SelectSeq(edits, LAMBDA e : e.resource = r)
         IN  (IF g = <<>> THEN <<>> ELSE <<g>>) \o GroupsFrom(edits, r + 1)

GroupBy(edits) == GroupsFrom(edits, 1)

\* a loop that never looks at the token
LoopEntersBodyUncancelled == bulkIdx < Len(GroupBy(batch))

\* for (let group of editsByNotebook) { if (isCancellationRequested) break; ...
LoopEntersBody == bulkIdx < Len(GroupBy(batch)) /\ ~cancelled

\* the resource of the first edit of the whole batch
FirstResourceOfBatch(group) == batch[1].resource

\* const [first] = group; findNotebookEditor(first.resource)
GroupResource(group) == group[1].resource

\* the head of the for loop: the loop ends, breaks on cancellation, or enters
\* the body for the next group
BulkLoopHead ==
    /\ bulkPc = "check"
    /\ bulkPc' = IF LoopEntersBody THEN "find" ELSE "done"
    /\ UNCHANGED <<batch, editorFound, cancelled, bulkIdx, applyCalls, progress,
                   startedAtCancel>>
    /\ UNCHANGED <<cellVars, otherVars>>

\* findNotebookEditor has resolved: applyCellEdits is called on the editor,
\* or the group is skipped when there is no editor
BulkFindResolved ==
    /\ bulkPc = "find"
    /\ LET group == GroupBy(batch)[bulkIdx + 1]
       IN  IF GroupResource(group) \in editorFound
           THEN /\ applyCalls' = Append(applyCalls,
                        [resource |-> GroupResource(group),
                         edits |-> ConvertToCellEdit([i \in 1..Len(group) |-> group[i].cellEdit])])
                /\ bulkPc' = "applying"
                /\ UNCHANGED <<bulkIdx, progress>>
           ELSE /\ progress' = progress + 1
                /\ bulkIdx' = bulkIdx + 1
                /\ bulkPc' = "check"
                /\ UNCHANGED applyCalls
    /\ UNCHANGED <<batch, editorFound, cancelled, startedAtCancel>>
    /\ UNCHANGED <<cellVars, otherVars>>

\* editor.applyCellEdits has resolved: progress is reported
BulkApplyResolved ==
    /\ bulkPc = "applying"
    /\ progress' = progress + 1
    /\ bulkIdx' = bulkIdx + 1
    /\ bulkPc' = "check"
    /\ UNCHANGED <<batch, editorFound, cancelled, applyCalls, startedAtCancel>>
    /\ UNCHANGED <<cellVars, otherVars>>

\* the owner of the token requests cancellation
Cancel ==
    /\ ~cancelled
    /\ bulkPc # "done"
    /\ cancelled' = TRUE
    /\ startedAtCancel' = bulkIdx + (IF bulkPc \in {"find", "applying"} THEN 1 ELSE 0)
    /\ UNCHANGED <<batch, editorFound, bulkPc, bulkIdx, applyCalls, progress>>
    /\ UNCHANGED <<cellVars, otherVars>>

\* ------------------------------------------------------------ initial states
\* ranges [s, e) inside a Document of n cells, non-empty
RangesIn(n) == {Rng(s, e) : s \in 0..n, e \in 0..n} \cap
               {r \in [start : 0..n, end : 0..n] : r.start < r.end}

\* selection lists as the view keeps them: ascending, separated ranges
InitSelections(n) ==
    {<<>>} \cup {<<r>> : r \in RangesIn(n)}
        \cup {p \in {<<r1, r2>> : r1 \in RangesIn(n), r2 \in RangesIn(n)} :
                 p[1].end < p[2].start}

InitFocus(n) == IF n = 0 THEN {Rng(0, 0)} ELSE {Rng(i, i + 1) : i \in 0..(n - 1)}

\* notebooks of markup cells heading a run of code cells: every comparison of
\* kinds the operations make has both outcomes on them
JoinCellSeqs ==
    {ks \in UNION {[1..n -> Kinds] : n \in 0..MaxInitCells} :
        \A i \in 1..(Len(ks) - 1) : ks[i] = "code" => ks[i + 1] = "code"}

\* of these, the notebooks with at most one heading markup cell
InitCellSeqs ==
    {ks \in JoinCellSeqs : \A i \in 2..Len(ks) : ks[i] = "code"}

CellsOfKinds(ks) == [i \in 1..Len(ks) |-> [handle |-> i, kind |-> ks[i], text |-> <<i>>]]

InitCells(seqs) ==
    /\ hasModel \in BOOLEAN
    /\ readOnly \in BOOLEAN
    /\ \E ks \in seqs :
          /\ hasModel \/ ks = <<>>
          /\ cells = CellsOfKinds(ks)
          /\ nextHandle = Len(ks) + 1
          /\ focus \in InitFocus(Len(ks))
          /\ selections \in InitSelections(Len(ks))
    /\ editing = {}
    /\ undoStack = <<>>
    /\ steps = 0
    /\ error = FALSE
    /\ pending = <<>>
    /\ last = LastRec("none", NoArg, NoArg, NoArg, FALSE, "", "", "", 0)

InitCellsIdle ==
    /\ hasModel = TRUE
    /\ readOnly = FALSE
    /\ cells = <<>>
    /\ nextHandle = 1
    /\ focus = Rng(0, 0)
    /\ selections = <<>>
    /\ editing = {}
    /\ undoStack = <<>>
    /\ steps = 0
    /\ error = FALSE
    /\ pending = <<>>
    /\ last = LastRec("none", NoArg, NoArg, NoArg, FALSE, "", "", "", 0)

BatchEdits ==
    {[resource |-> r, cellEdit |-> e] :
        r \in Notebooks, e \in {ReplaceEdit(0, 1, <<>>), MoveEdit(0, 1, 1)}}

InitBulk ==
    /\ batch \in UNION {[1..n -> BatchEdits] : n \in 0..MaxBatch}
    /\ editorFound \in SUBSET Notebooks
    /\ cancelled = FALSE
    /\ bulkPc = "check"
    /\ bulkIdx = 0
    /\ applyCalls = <<>>
    /\ progress = 0
    /\ startedAtCancel = 0

InitBulkIdle ==
    /\ batch = <<>>
    /\ editorFound = {}
    /\ cancelled = FALSE
    /\ bulkPc = "done"
    /\ bulkIdx = 0
    /\ applyCalls = <<>>
    /\ progress = 0
    /\ startedAtCancel = 0

\* ------------------------------------------------- computeCellLinesContents
Pos(l, c) == [lineNumber |-> l, column |-> c]

GetLineCount(buf) == Len(buf)
GetLineLength(buf, n) == Len(buf[n])

\* the text of the buffer: its lines joined by the end-of-line sequence
RECURSIVE BufferText(_)
BufferText(buf) ==
    IF Len(buf) = 1 THEN buf[1] ELSE buf[1] \o <<EOL>> \o BufferText(Tail(buf))

\* the number of characters of the text in front of position p
RECURSIVE OffsetAt(_, _)
OffsetAt(buf, p) ==
    IF p.lineNumber = 1 THEN p.column - 1
    ELSE Len(buf[1]) + 1 + OffsetAt(Tail(buf), Pos(p.lineNumber - 1, p.column))

\* textBuffer.getValueInRange(new Range(start, end), TextDefined)
GetValueInRange(buf, start, end) ==
    SubSeq(BufferText(buf), OffsetAt(buf, start) + 1, OffsetAt(buf, end))

\* the comparator of the sort: by line, then by column
PosBefore(l, r) ==
    \/ l.lineNumber < r.lineNumber
    \/ l.lineNumber = r.lineNumber /\ l.column < r.column

RECURSIVE InsertSorted(_, _)
InsertSorted(s, p) ==
    IF s = <<>> THEN <<p>>
    ELSE IF PosBefore(p, Head(s)) THEN <<p>> \o s
    ELSE <<Head(s)>> \o InsertSorted(Tail(s), p)

\* splitPoints.sort(...)
RECURSIVE SortSplitPoints(_)
SortSplitPoints(s) ==
    IF s = <<>> THEN <<>> ELSE InsertSorted(SortSplitPoints(Tail(s)), Head(s))

\* a split point at the end of a line becomes the start of the next line,
\* unless the line is empty or is the last one
SplitBoundary(buf, sp) ==
    IF /\ GetLineLength(buf, sp.lineNumber) + 1 = sp.column
       /\ sp.column # 1
       /\ sp.lineNumber < GetLineCount(buf)
    THEN Pos(sp.lineNumber + 1, 1)
    ELSE sp

PushIfAbsent(positions, p) ==
    IF positions = <<>> \/ positions[Len(positions)] # p
    THEN Append(positions, p)
    ELSE positions

\* the loop over the sorted split points
RECURSIVE BoundariesOf(_, _, _)
BoundariesOf(buf, sps, boundaries) ==
    IF sps = <<>> THEN boundaries
    ELSE BoundariesOf(buf, Tail(sps),
                      PushIfAbsent(boundaries, SplitBoundary(buf, Head(sps))))

\* _splitPointsToBoundaries: <<>> stands for null
SplitPointsToBoundaries(sps, buf) ==
    LET boundaries == BoundariesOf(buf, SortSplitPoints(sps), <<>>)
        lineCnt == GetLineCount(buf)
    IN  IF boundaries = <<>> THEN <<>>
        ELSE <<Pos(1, 1)>> \o boundaries
                 \o <<Pos(lineCnt, GetLineLength(buf, lineCnt) + 1)>>

\* computeCellLinesContents: null, or the list of the texts between
\* neighbouring boundaries
ComputeCellLinesContents(buf, sps) ==
    LET rangeBoundaries == SplitPointsToBoundaries(sps, buf)
    IN  IF rangeBoundaries = <<>> THEN [state |-> "null", list |-> <<>>]
        ELSE [state |-> "list",
              list |-> [i \in 1..(Len(rangeBoundaries) - 1) |->
                           GetValueInRange(buf, rangeBoundaries[i], rangeBoundaries[i + 1])]]

\* a call of computeCellLinesContents on the cell and the split points
SplitCell ==
    /\ newLineModels.state = "idle"
    /\ newLineModels' = ComputeCellLinesContents(textBuffer, splitPoints)
    /\ UNCHANGED <<textBuffer, splitPoints>>
    /\ UNCHANGED <<cellVars, bulkVars, adapterVars, telemetryVars, statusVars, termVars>>

\* buffers of up to MaxLines lines of up to MaxLineLen characters; the
\* character at column c of line l is 10 * l + c
TextBuffers ==
    UNION {{[l \in 1..n |-> [c \in 1..lens[l] |-> 10 * l + c]] :
               lens \in [1..n -> 0..MaxLineLen]} : n \in 1..MaxLines}

PositionsIn(buf) ==
    UNION {{Pos(l, c) : c \in 1..(GetLineLength(buf, l) + 1)} : l \in 1..GetLineCount(buf)}

InitSplit ==
    /\ textBuffer \in TextBuffers
    /\ splitPoints \in UNION {[1..n -> PositionsIn(textBuffer)] : n \in 0..MaxSplits}
    /\ newLineModels = [state |-> "idle", list |-> <<>>]

InitSplitIdle ==
    /\ textBuffer = <<<<>>>>
    /\ splitPoints = <<>>
    /\ newLineModels = [state |-> "idle", list |-> <<>>]

\* ------------------------------------------------------------ AdapterManager
DebugTypes == {"node", "python"}
Factories == {"launcherA", "launcherB"}
Configs == {"launch"}
NoFactory == "none"

\* a Debugger: absent, without a when clause, or with a when clause that
\* holds ("on") or does not hold ("off") in the current context
DebuggerStates == {"absent", "always", "on", "off"}

\* dbg && dbg.enabled
DebuggerEnabled(type) == debuggers[type] \in {"always", "on"}

\* hasEnabledDebuggers over a factory map
HasEnabledDebuggers(factories) ==
    \E type \in DebugTypes : factories[type] # NoFactory /\ DebuggerEnabled(type)

\* registerDebugAdapterFactory(debugTypes, debugAdapterLauncher)
RegisterDebugAdapterFactory(debugTypes, launcher) ==
    /\ Len(registrations) < MaxRegistrations
    /\ debugAdapterFactories' =
           [type \in DebugTypes |->
               IF type \in debugTypes THEN launcher ELSE debugAdapterFactories[type]]
    /\ debuggersAvailable' = HasEnabledDebuggers(debugAdapterFactories')
    /\ registrations' = Append(registrations,
                               [types |-> debugTypes, factory |-> launcher, disposed |-> FALSE])
    /\ UNCHANGED <<debuggers, lookup>>
    /\ UNCHANGED <<cellVars, bulkVars, splitVars, telemetryVars, statusVars, termVars>>

\* dispose() of the registration returned by call i
DisposeRegistration(i) ==
    /\ ~registrations[i].disposed
    /\ debugAdapterFactories' =
           [type \in DebugTypes |->
               IF type \in registrations[i].types THEN NoFactory
               ELSE debugAdapterFactories[type]]
    /\ registrations' = [registrations EXCEPT ![i].disposed = TRUE]
    /\ UNCHANGED <<debuggers, debuggersAvailable, lookup>>
    /\ UNCHANGED <<cellVars, bulkVars, splitVars, telemetryVars, statusVars, termVars>>

\* the context key of the when clause of the Debugger of a type changes and
\* onDidChangeContext fires: the key is one of debuggerWhenKeys
ContextChanged(type) ==
    /\ debuggers[type] \in {"on", "off"}
    /\ debuggers' = [debuggers EXCEPT ![type] = IF @ = "on" THEN "off" ELSE "on"]
    /\ debuggersAvailable' =
           (\E ty \in DebugTypes :
               /\ debugAdapterFactories[ty] # NoFactory
               /\ debuggers'[ty] \in {"always", "on"})
    /\ UNCHANGED <<debugAdapterFactories, registrations, lookup>>
    /\ UNCHANGED <<cellVars, bulkVars, splitVars, telemetryVars, statusVars, termVars>>

LookupRec(op, type, config, kind, factory, out) ==
    [op |-> op, type |-> type, config |-> config,
     kind |-> kind, factory |-> factory, out |-> out]

\* a lookup that loses the config when there is no factory
ConfigDroppedWithoutFactory(config) == "undefined"

\* return Promise.resolve(config)
ConfigWithoutFactory(config) == config

\* createDebugAdapter(session) with session.configuration.type = type
CreateDebugAdapter(type) ==
    /\ lookup' = IF debugAdapterFactories[type] # NoFactory
                 THEN LookupRec("createDebugAdapter", type, "", "adapter",
                                debugAdapterFactories[type], "")
                 ELSE LookupRec("createDebugAdapter", type, "", "undefined", NoFactory, "")
    /\ UNCHANGED <<debugAdapterFactories, registrations, debuggers, debuggersAvailable>>
    /\ UNCHANGED <<cellVars, bulkVars, splitVars, telemetryVars, statusVars, termVars>>

\* substituteVariables(debugType, folder, config)
SubstituteVariables(type, config) ==
    /\ lookup' = IF debugAdapterFactories[type] # NoFactory
                 THEN LookupRec("substituteVariables", type, config, "substituted",
                                debugAdapterFactories[type], "")
                 ELSE LookupRec("substituteVariables", type, config, "resolved", NoFactory,
                                ConfigWithoutFactory(config))
    /\ UNCHANGED <<debugAdapterFactories, registrations, debuggers, debuggersAvailable>>
    /\ UNCHANGED <<cellVars, bulkVars, splitVars, telemetryVars, statusVars, termVars>>

\* runInTerminal(debugType, args, sessionId)
RunInTerminal(type) ==
    /\ lookup' = IF debugAdapterFactories[type] # NoFactory
                 THEN LookupRec("runInTerminal", type, "", "terminal",
                                debugAdapterFactories[type], "")
                 ELSE LookupRec("runInTerminal", type, "", "resolved", NoFactory, "undefined")
    /\ UNCHANGED <<debugAdapterFactories, registrations, debuggers, debuggersAvailable>>
    /\ UNCHANGED <<cellVars, bulkVars, splitVars, telemetryVars, statusVars, termVars>>

\* a new AdapterManager, the debuggers of the extension point read
InitAdapter ==
    /\ debugAdapterFactories = [type \in DebugTypes |-> NoFactory]
    /\ registrations = <<>>
    /\ debuggers \in [DebugTypes -> DebuggerStates]
    /\ debuggersAvailable = FALSE
    /\ lookup = LookupRec("none", "", "", "", NoFactory, "")

InitAdapterIdle ==
    /\ debugAdapterFactories = [type \in DebugTypes |-> NoFactory]
    /\ registrations = <<>>
    /\ debuggers = [type \in DebugTypes |-> "absent"]
    /\ debuggersAvailable = FALSE
    /\ lookup = LookupRec("none", "", "", "", NoFactory, "")

\* --------------------------------------------- CustomEndpointTelemetryService
Endpoints == {"endpointA", "endpointB"}
LogMethods == {"publicLog", "publicLogError"}
NoService == 0

\* publicLog / publicLogError(telemetryEndpoint, ...) is called and runs into
\* getCustomTelemetryService: without a service for the id it suspends at
\* the await of getTelemetryInfo, with one it gets that service
PublicLogCalled(endpoint, method) ==
    /\ Len(telemetryCalls) < MaxCalls
    /\ telemetryCalls' = Append(telemetryCalls,
           IF customTelemetryServices[endpoint] = NoService
           THEN [endpoint |-> endpoint, method |-> method, pc |-> "info",
                 service |-> NoService]
           ELSE [endpoint |-> endpoint, method |-> method, pc |-> "service",
                 service |-> customTelemetryServices[endpoint]])
    /\ UNCHANGED <<customTelemetryServices, telemetryCreated>>
    /\ UNCHANGED <<cellVars, bulkVars, splitVars, adapterVars, statusVars, termVars>>

\* getTelemetryInfo has resolved for call c: a telemetry client and a
\* telemetry service are created and set for the id, and the service of the
\* id is returned
TelemetryInfoResolved(c) ==
    /\ telemetryCalls[c].pc = "info"
    /\ telemetryCreated' = Append(telemetryCreated, telemetryCalls[c].endpoint)
    /\ customTelemetryServices' =
           [customTelemetryServices EXCEPT ![telemetryCalls[c].endpoint] =
               Len(telemetryCreated) + 1]
    /\ telemetryCalls' = [telemetryCalls EXCEPT
           ![c].pc = "service",
           ![c].service = customTelemetryServices'[telemetryCalls[c].endpoint]]
    /\ UNCHANGED <<cellVars, bulkVars, splitVars, adapterVars, statusVars, termVars>>

\* call c logs through the service it was given
LoggedThroughService(c) ==
    /\ telemetryCalls[c].pc = "service"
    /\ telemetryCalls' = [telemetryCalls EXCEPT ![c].pc = "logged"]
    /\ UNCHANGED <<customTelemetryServices, telemetryCreated>>
    /\ UNCHANGED <<cellVars, bulkVars, splitVars, adapterVars, statusVars, termVars>>

InitTelemetry ==
    /\ customTelemetryServices = [e \in Endpoints |-> NoService]
    /\ telemetryCalls = <<>>
    /\ telemetryCreated = <<>>

\* ------------------------------------------------------------- StatusbarPart
EntryContents == {"ready", "busy"}

\* the view model after viewModel.add of the entry of addEntry call key
ViewModelAdd(entries, key, content) == Append(entries, [key |-> key, content |-> content])

\* the view model after viewModel.remove of the entry of call key
ViewModelRemove(entries, key) == SelectSeq(entries, LAMBDA e : e.key # key)

\* item.update(entry) on the item of call key
ItemUpdate(entries, key, content) ==
    [i \in 1..Len(entries) |->
        IF entries[i].key = key THEN [entries[i] EXCEPT !.content = content]
        ELSE entries[i]]

\* addEntry(entry, id, alignment, priority): recorded as pending while the
\* part has no element, added to the view otherwise
AddEntry(content) ==
    /\ Len(statusAccessors) < MaxEntries
    /\ LET key == Len(statusAccessors) + 1
       IN  IF ~statusElement
           THEN /\ pendingEntries' = Append(pendingEntries, key)
                /\ statusAccessors' = Append(statusAccessors,
                       [pending |-> TRUE, entry |-> content, linked |-> FALSE,
                        latest |-> content, disposed |-> FALSE])
                /\ UNCHANGED viewModelEntries
           ELSE /\ viewModelEntries' = ViewModelAdd(viewModelEntries, key, content)
                /\ statusAccessors' = Append(statusAccessors,
                       [pending |-> FALSE, entry |-> content, linked |-> FALSE,
                        latest |-> content, disposed |-> FALSE])
                /\ UNCHANGED pendingEntries
    /\ statusLast' = [op |-> "addEntry", key |-> Len(statusAccessors) + 1, again |-> FALSE]
    /\ UNCHANGED statusElement
    /\ UNCHANGED <<cellVars, bulkVars, splitVars, adapterVars, telemetryVars, termVars>>

\* an update of a pending entry that is forgotten
PendingEntryUpdateLost(current, entry) == current

\* pendingEntry.entry = entry
PendingEntryUpdated(current, entry) == entry

\* accessor.update(entry) on the accessor addEntry call key returned
UpdateEntry(key, content) ==
    /\ IF statusAccessors[key].pending /\ ~statusAccessors[key].linked
       THEN /\ statusAccessors' = [statusAccessors EXCEPT
                   ![key].entry = PendingEntryUpdated(@, content),
                   ![key].latest = content]
            /\ UNCHANGED viewModelEntries
       ELSE /\ viewModelEntries' = ItemUpdate(viewModelEntries, key, content)
            /\ statusAccessors' = [statusAccessors EXCEPT ![key].latest = content]
    /\ statusLast' = [op |-> "update", key |-> key, again |-> statusAccessors[key].disposed]
    /\ UNCHANGED <<statusElement, pendingEntries>>
    /\ UNCHANGED <<cellVars, bulkVars, splitVars, adapterVars, telemetryVars, termVars>>

\* a dispose that leaves the pending entry on the list
PendingEntryKept(pendings, key) == pendings

\* this.pendingEntries.filter(entry => entry !== pendingEntry)
PendingEntryFiltered(pendings, key) == SelectSeq(pendings, LAMBDA k : k # key)

\* accessor.dispose() on the accessor addEntry call key returned
DisposeEntry(key) ==
    /\ IF statusAccessors[key].pending /\ ~statusAccessors[key].linked
       THEN /\ pendingEntries' = PendingEntryFiltered(pendingEntries, key)
            /\ UNCHANGED viewModelEntries
       ELSE /\ viewModelEntries' = ViewModelRemove(viewModelEntries, key)
            /\ UNCHANGED pendingEntries
    /\ statusAccessors' = [statusAccessors EXCEPT ![key].disposed = TRUE]
    /\ statusLast' = [op |-> "dispose", key |-> key, again |-> statusAccessors[key].disposed]
    /\ UNCHANGED statusElement
    /\ UNCHANGED <<cellVars, bulkVars, splitVars, adapterVars, telemetryVars, termVars>>

\* the loop of createInitialStatusbarEntries: each pending entry is shifted
\* off the list and added to the view with its current entry
RECURSIVE AddPendingEntries(_, _)
AddPendingEntries(pendings, entries) ==
    IF pendings = <<>> THEN entries
    ELSE AddPendingEntries(Tail(pendings),
             ViewModelAdd(entries, Head(pendings), statusAccessors[Head(pendings)].entry))

\* createContentArea(parent)
CreateContentArea ==
    /\ ~statusElement
    /\ statusElement' = TRUE
    /\ viewModelEntries' = AddPendingEntries(pendingEntries, viewModelEntries)
    /\ statusAccessors' =
           [key \in 1..Len(statusAccessors) |->
               IF \E i \in 1..Len(pendingEntries) : pendingEntries[i] = key
               THEN [statusAccessors[key] EXCEPT !.linked = TRUE]
               ELSE statusAccessors[key]]
    /\ pendingEntries' = <<>>
    /\ statusLast' = [op |-> "createContentArea", key |-> 0, again |-> FALSE]
    /\ UNCHANGED <<cellVars, bulkVars, splitVars, adapterVars, telemetryVars, termVars>>

InitStatus ==
    /\ statusElement = FALSE
    /\ pendingEntries = <<>>
    /\ statusAccessors = <<>>
    /\ viewModelEntries = <<>>
    /\ statusLast = [op |-> "none", key |-> 0, again |-> FALSE]

\* --------------------------------------------------------- LineDataEventAddon
TermCols == 2
OperatingSystems == {"Windows", "Linux"}
NoOs == "none"
Blank == 0
NoLine == [text |-> <<>>, isWrapped |-> FALSE, defined |-> FALSE]

BufferLine(text, isWrapped) == [text |-> text, isWrapped |-> isWrapped, defined |-> TRUE]
BlankLine(isWrapped) == BufferLine([c \in 1..TermCols |-> Blank], isWrapped)

\* buffer.getLine(lineIndex): the row, or undefined outside the buffer
GetLine(lines, lineIndex) ==
    IF lineIndex >= 0 /\ lineIndex < Len(lines) THEN lines[lineIndex + 1] ELSE NoLine

RECURSIVE TrimRight(_)
TrimRight(s) ==
    IF s = <<>> \/ s[Len(s)] # Blank THEN s ELSE TrimRight(SubSeq(s, 1, Len(s) - 1))

\* line.translateToString(trimRight)
TranslateToString(line, trimRight) == IF trimRight THEN TrimRight(line.text) ELSE line.text

\* the while loop of _sendLineData
RECURSIVE SendLineDataLoop(_, _, _, _)
SendLineDataLoop(lines, lineIndex, line, lineData) ==
    IF lineIndex > 0 /\ line.isWrapped
    THEN LET previous == GetLine(lines, lineIndex - 1)
         IN  IF ~previous.defined THEN lineData
             ELSE SendLineDataLoop(lines, lineIndex - 1, previous,
                                   TranslateToString(previous, FALSE) \o lineData)
    ELSE lineData

\* _sendLineData(buffer, lineIndex): the number of fire calls and the string fired
SendLineData(lines, lineIndex) ==
    LET line == GetLine(lines, lineIndex)
    IN  IF ~line.defined THEN [fired |-> 0, data |-> <<>>]
        ELSE [fired |-> 1,
              data |-> SendLineDataLoop(lines, lineIndex, line, TranslateToString(line, TRUE))]

\* Emitter.fire: the listeners receive the event unless the emitter was disposed
Delivered(sent, disposed) == IF disposed THEN 0 ELSE sent.fired

TermLastRec(op, sent, delivered, os) ==
    [op |-> op, fired |-> sent.fired, data |-> sent.data, delivered |-> delivered, os |-> os]

NothingSent == [fired |-> 0, data |-> <<>>]

\* the buffer keeps at most MaxTermRows rows: the oldest row is trimmed
Scrolled(lines) ==
    IF Len(lines) > MaxTermRows THEN Tail(lines) ELSE lines

\* the cursor row after a row was appended below the last one
ScrolledRow(lines, y) == IF Len(lines) > MaxTermRows THEN y - 1 ELSE y

\* activate(xterm)
Activate ==
    /\ ~xtermActive
    /\ ~addonDisposed
    /\ xtermActive' = TRUE
    /\ termLast' = TermLastRec("activate", NothingSent, 0, NoOs)
    /\ UNCHANGED <<isOsSet, fixedOs, csiHandlers, csiRegistered, emitterDisposed,
                   addonDisposed, termLines, termCursor, termPrinted>>
    /\ UNCHANGED <<cellVars, bulkVars, splitVars, adapterVars, telemetryVars, statusVars>>

\* a setOperatingSystem whose one-shot flag is never seen set
OsNeverSet == FALSE

\* this._isOsSet
OsAlreadySet == isOsSet

\* setOperatingSystem(os)
SetOperatingSystem(os) ==
    /\ IF OsAlreadySet \/ ~xtermActive
       THEN UNCHANGED <<isOsSet, fixedOs, csiHandlers, csiRegistered>>
       ELSE /\ isOsSet' = TRUE
            /\ fixedOs' = os
            /\ csiHandlers' = IF os = "Windows" THEN csiHandlers + 1 ELSE csiHandlers
            /\ csiRegistered' = IF os = "Windows" THEN csiRegistered + 1 ELSE csiRegistered
    /\ termLast' = TermLastRec("setOperatingSystem", NothingSent, 0, os)
    /\ UNCHANGED <<xtermActive, emitterDisposed, addonDisposed, termLines, termCursor,
                   termPrinted>>
    /\ UNCHANGED <<cellVars, bulkVars, splitVars, adapterVars, telemetryVars, statusVars>>

\* the terminal prints a character: a full row wraps onto the next row,
\* which becomes a wrapped continuation; no line feed event is raised
TermPrint ==
    /\ termPrinted < MaxPrints
    /\ LET wrap == termCursor.x = TermCols
           below == termCursor.y + 1 < Len(termLines)
           wrapped == IF ~wrap THEN termLines
                      ELSE IF below
                      THEN [termLines EXCEPT ![termCursor.y + 2].isWrapped = TRUE]
                      ELSE Append(termLines, BlankLine(TRUE))
           y == IF wrap THEN ScrolledRow(wrapped, termCursor.y + 1) ELSE termCursor.y
           x == IF wrap THEN 0 ELSE termCursor.x
       IN  /\ termLines' = [Scrolled(wrapped) EXCEPT ![y + 1].text[x + 1] = termPrinted + 1]
           /\ termCursor' = [x |-> x + 1, y |-> y]
    /\ termPrinted' = termPrinted + 1
    /\ termLast' = TermLastRec("print", NothingSent, 0, NoOs)
    /\ UNCHANGED <<xtermActive, isOsSet, fixedOs, csiHandlers, csiRegistered,
                   emitterDisposed, addonDisposed>>
    /\ UNCHANGED <<cellVars, bulkVars, splitVars, adapterVars, telemetryVars, statusVars>>

\* a line feed handler that reports on wrapped rows too
NewLineAnyRow(newLine) == newLine.defined

\* newLine && !newLine.isWrapped
NewLineNotWrapped(newLine) == newLine.defined /\ ~newLine.isWrapped

\* the xterm.onLineFeed listener of activate
OnLineFeed(lines, cursorRow) ==
    IF NewLineNotWrapped(GetLine(lines, cursorRow))
    THEN SendLineData(lines, cursorRow - 1)
    ELSE NothingSent

\* the terminal feeds a line: the cursor goes to the start of the next row, a
\* new row is appended below the last one, and the onLineFeed listeners run
TermLineFeed ==
    /\ LET below == termCursor.y + 1 < Len(termLines)
           fed == IF below THEN termLines ELSE Append(termLines, BlankLine(FALSE))
           y == ScrolledRow(fed, termCursor.y + 1)
           sent == IF xtermActive THEN OnLineFeed(Scrolled(fed), y) ELSE NothingSent
       IN  /\ termLines' = Scrolled(fed)
           /\ termCursor' = [x |-> 0, y |-> y]
           /\ termLast' = TermLastRec("lineFeed", sent, Delivered(sent, emitterDisposed), NoOs)
    /\ UNCHANGED <<xtermActive, isOsSet, fixedOs, csiHandlers, csiRegistered,
                   emitterDisposed, addonDisposed, termPrinted>>
    /\ UNCHANGED <<cellVars, bulkVars, splitVars, adapterVars, telemetryVars, statusVars>>

\* the terminal moves the cursor up one row (CSI 'A')
TermCursorUp ==
    /\ termCursor.y > 0
    /\ termCursor' = [termCursor EXCEPT !.y = @ - 1]
    /\ termLast' = TermLastRec("cursorUp", NothingSent, 0, NoOs)
    /\ UNCHANGED <<xtermActive, isOsSet, fixedOs, csiHandlers, csiRegistered,
                   emitterDisposed, addonDisposed, termLines, termPrinted>>
    /\ UNCHANGED <<cellVars, bulkVars, splitVars, adapterVars, telemetryVars, statusVars>>

\* the terminal parses CSI 'H': the registered handlers run (lines 51-55) and
\* return false, then the cursor goes home
TermCursorHome ==
    /\ LET sent == IF csiHandlers > 0 THEN SendLineData(termLines, termCursor.y)
                   ELSE NothingSent
       IN  termLast' = TermLastRec("cursorHome", sent, Delivered(sent, emitterDisposed), NoOs)
    /\ termCursor' = [x |-> 0, y |-> 0]
    /\ UNCHANGED <<xtermActive, isOsSet, fixedOs, csiHandlers, csiRegistered,
                   emitterDisposed, addonDisposed, termLines, termPrinted>>
    /\ UNCHANGED <<cellVars, bulkVars, splitVars, adapterVars, telemetryVars, statusVars>>

\* dispose(): the registered disposables go in the order of their
\* registration: the emitter _onLineData (line 19), then the flush of
\* activate (lines 34-37), then the CSI handler (line 51)
DisposeAddon ==
    /\ ~addonDisposed
    /\ addonDisposed' = TRUE
    /\ emitterDisposed' = TRUE
    /\ LET sent == IF xtermActive THEN SendLineData(termLines, termCursor.y) ELSE NothingSent
       IN  termLast' = TermLastRec("dispose", sent, Delivered(sent, TRUE), NoOs)
    /\ csiHandlers' = 0
    /\ UNCHANGED <<xtermActive, isOsSet, fixedOs, csiRegistered, termLines, termCursor,
                   termPrinted>>
    /\ UNCHANGED <<cellVars, bulkVars, splitVars, adapterVars, telemetryVars, statusVars>>

InitTerm ==
    /\ xtermActive = FALSE
    /\ isOsSet = FALSE
    /\ fixedOs = NoOs
    /\ csiHandlers = 0
    /\ csiRegistered = 0
    /\ emitterDisposed = FALSE
    /\ addonDisposed = FALSE
    /\ termLines = <<BlankLine(FALSE)>>
    /\ termCursor = [x |-> 0, y |-> 0]
    /\ termPrinted = 0
    /\ termLast = TermLastRec("none", NothingSent, 0, NoOs)

\* the components that a specification leaves alone
InitOtherIdle == InitSplitIdle /\ InitAdapterIdle /\ InitTelemetry /\ InitStatus /\ InitTerm

\* ------------------------------------------------------------ specifications
Directions == {"above", "below"}
UpDown == {"up", "down"}

\* the indexes of the existing cells of the selections, ascending:
\* context.selectedCells
SelectedIndexes ==
    SelectSeq(Concat([i \in 1..Len(selections) |-> RangeIndexes(selections[i])]),
              LAMBDA i : CellAt(i) # Undefined)

\* ranges handed to joinNotebookCells: up to two cells, possibly ending one
\* past the last cell
JoinRanges ==
    {Rng(s, e) : s \in 0..Len(cells), e \in 1..(Len(cells) + 1)} \cap
    {r \in [start : 0..Len(cells), end : 1..(Len(cells) + 1)] :
        r.start < r.end /\ r.end - r.start <= 2}

NextCells ==
    \/ \E kind \in Kinds, i \in 0..(Len(cells) - 1) : ChangeCellToKind(kind, TRUE, i, <<>>)
    \/ \E kind \in Kinds : ChangeCellToKind(kind, FALSE, NoArg, SelectedIndexes)
    \/ \E i \in 0..(Len(cells) - 1) : RunDeleteAction(i)
    \/ \E d \in UpDown : MoveCellRange(d)
    \/ \E d \in UpDown, i \in 0..(Len(cells) - 1) : CopyCellRange(TRUE, i, d)
    \/ \E d \in UpDown : CopyCellRange(FALSE, NoArg, d)
    \/ \E i \in 0..Len(cells), t \in Kinds, d \in Directions : InsertCell(i, t, d, FALSE)
    \/ \E i \in 0..(Len(cells) + 1), p \in BOOLEAN : InsertCellAtIndex(i, "code", p)
    \/ \E i \in 0..Len(cells), len \in 1..2, to \in 0..Max(Len(cells) - 1, 0) : MoveCellToIdx(i, len, to)
    \/ Undo

NextJoin ==
    \/ \E r \in JoinRanges, d \in Directions, c \in {"none", "code", "markup"} :
          JoinNotebookCellsCall(r, d, c)
    \/ \E i \in 0..(Len(cells) - 1), d \in Directions : JoinCellsWithSurrounds(TRUE, i, d)
    \/ \E d \in Directions : JoinCellsWithSurrounds(FALSE, NoArg, d)
    \/ JoinCommit

NextBulk ==
    \/ BulkLoopHead
    \/ BulkFindResolved
    \/ BulkApplyResolved
    \/ Cancel

Init == InitCells(InitCellSeqs) /\ InitBulkIdle /\ InitOtherIdle
Next == NextCells
Spec == Init /\ [][Next]_vars

InitJoin == InitCells(JoinCellSeqs) /\ InitBulkIdle /\ InitOtherIdle
SpecJoin == InitJoin /\ [][NextJoin]_vars

\* cell operations started while a join is suspended at bulkEditService.apply
NextInterleave ==
    \/ \E i \in 0..(Len(cells) - 1), d \in Directions : JoinCellsWithSurrounds(TRUE, i, d)
    \/ \E d \in Directions : JoinCellsWithSurrounds(FALSE, NoArg, d)
    \/ \E i \in 0..(Len(cells) - 1) : RunDeleteAction(i)
    \/ JoinCommit

InitInterleave == InitCells(InitCellSeqs) /\ ~readOnly /\ InitBulkIdle /\ InitOtherIdle
SpecInterleave == InitInterleave /\ [][NextInterleave]_vars

\* moveCellRange and copyCellRange calls
NextMoveCopy ==
    \/ \E d \in UpDown : MoveCellRange(d)
    \/ \E d \in UpDown, i \in 0..(Len(cells) - 1) : CopyCellRange(TRUE, i, d)
    \/ \E d \in UpDown : CopyCellRange(FALSE, NoArg, d)

SpecMoveCopy == Init /\ [][NextMoveCopy]_vars

\* cells deleted one call after the other
NextDelete == \E i \in 0..(Len(cells) - 1) : RunDeleteActionRepeated(i)
InitDelete == InitCells(InitCellSeqs) /\ hasModel /\ ~readOnly /\ InitBulkIdle /\ InitOtherIdle
SpecDelete == InitDelete /\ [][NextDelete]_vars

\* a BulkCellEdits instance constructed over an idle editor
InitApply == InitCellsIdle /\ InitBulk /\ InitOtherIdle
SpecBulk == InitApply /\ [][NextBulk]_vars

\* computeCellLinesContents called on a cell's text
NextSplit == SplitCell
InitSplitCall ==
    InitCellsIdle /\ InitBulkIdle /\ InitSplit /\ InitAdapterIdle /\ InitTelemetry /\ InitStatus
        /\ InitTerm
SpecSplit == InitSplitCall /\ [][NextSplit]_vars

\* registrations, disposals, context changes and lookups on an AdapterManager
NextAdapter ==
    \/ \E types \in (SUBSET DebugTypes) \ {{}}, f \in Factories :
          RegisterDebugAdapterFactory(types, f)
    \/ \E i \in 1..Len(registrations) : DisposeRegistration(i)
    \/ \E type \in DebugTypes : ContextChanged(type)
    \/ \E type \in DebugTypes : CreateDebugAdapter(type)
    \/ \E type \in DebugTypes, c \in Configs : SubstituteVariables(type, c)
    \/ \E type \in DebugTypes : RunInTerminal(type)

InitAdapterManager ==
    InitCellsIdle /\ InitBulkIdle /\ InitSplitIdle /\ InitAdapter /\ InitTelemetry /\ InitStatus
        /\ InitTerm
SpecAdapter == InitAdapterManager /\ [][NextAdapter]_vars

\* concurrent publicLog and publicLogError calls on one service
NextTelemetry ==
    \/ \E e \in Endpoints, m \in LogMethods : PublicLogCalled(e, m)
    \/ \E c \in 1..Len(telemetryCalls) : TelemetryInfoResolved(c)
    \/ \E c \in 1..Len(telemetryCalls) : LoggedThroughService(c)

InitTelemetryService ==
    InitCellsIdle /\ InitBulkIdle /\ InitSplitIdle /\ InitAdapterIdle /\ InitTelemetry
        /\ InitStatus /\ InitTerm
SpecTelemetry == InitTelemetryService /\ [][NextTelemetry]_vars

\* entries added, updated and disposed before and after the status bar is created
NextStatus ==
    \/ \E c \in EntryContents : AddEntry(c)
    \/ \E key \in 1..Len(statusAccessors), c \in EntryContents : UpdateEntry(key, c)
    \/ \E key \in 1..Len(statusAccessors) : DisposeEntry(key)
    \/ CreateContentArea

InitStatusbarPart ==
    InitCellsIdle /\ InitBulkIdle /\ InitSplitIdle /\ InitAdapterIdle /\ InitTelemetry
        /\ InitStatus /\ InitTerm
SpecStatus == InitStatusbarPart /\ [][NextStatus]_vars

\* a LineDataEventAddon on a terminal that prints, feeds lines and moves its cursor
NextTerminal ==
    \/ Activate
    \/ \E os \in OperatingSystems : SetOperatingSystem(os)
    \/ TermPrint
    \/ TermLineFeed
    \/ TermCursorUp
    \/ TermCursorHome
    \/ DisposeAddon

InitLineDataAddon ==
    InitCellsIdle /\ InitBulkIdle /\ InitSplitIdle /\ InitAdapterIdle /\ InitTelemetry
        /\ InitStatus /\ InitTerm
SpecTerminal == InitLineDataAddon /\ [][NextTerminal]_vars

\* ================================================================== claims
\* an operation was invoked in this step
Invoked(op) == last'.op = op /\ steps' = steps + 1

ValidRange(r, n) == 0 <= r.start /\ r.start <= r.end /\ r.end <= n

SelectionStateValid ==
    /\ ValidRange(focus, Len(cells))
    /\ \A i \in 1..Len(selections) : ValidRange(selections[i], Len(cells))

\* C1: a committing cell operation on a Document of n cells leaves it with
\* n - removed + inserted cells: deleting k cells gives n - k, copying a range
\* of k cells n + k, inserting n + 1, moving and changing the kind n.
C1_CellCount ==
    [][/\ Invoked("runDeleteAction") => Len(cells') = Len(cells) - last'.k
       /\ (Invoked("copyCellRange") /\ last'.res = "applied")
            => Len(cells') = Len(cells) + last'.k
       /\ Invoked("insertCellAtIndex") => Len(cells') = Len(cells) + 1
       /\ (Invoked("moveCellRange") /\ last'.res = "applied") => Len(cells') = Len(cells)
       /\ (Invoked("moveCellToIdx") /\ last'.res = "true") => Len(cells') = Len(cells)
       /\ (Invoked("changeCellToKind") /\ last'.res = "applied")
            => Len(cells') = Len(cells)]_vars

C1_Witness ==
    /\ last.op = "copyCellRange" /\ last.res = "applied" /\ last.k = 2
    /\ Len(cells) = 4

\* C2: after runDeleteAction, moveCellRange, copyCellRange, insertCellAtIndex
\* and moveCellToIdx calls from an index-valid Selection State, the focus and
\* every selection range satisfy 0 <= start <= end <= cell count.
C2_SelectionInRange ==
    last.op \in {"none", "runDeleteAction", "moveCellRange", "copyCellRange",
                 "insertCellAtIndex", "moveCellToIdx"}
        => SelectionStateValid

\* ---- BulkCellEdits.apply
\* the resources for which editor.applyCellEdits has been called
AppliedResources == {applyCalls[i].resource : i \in 1..Len(applyCalls)}

BatchResources == {batch[i].resource : i \in 1..Len(batch)}

\* the groups whose cancellation check has passed
GroupsStarted == bulkIdx + (IF bulkPc \in {"find", "applying"} THEN 1 ELSE 0)

C4_Cancellation ==
    [][/\ cancelled' => GroupsStarted' = startedAtCancel'
       /\ Len(applyCalls') >= Len(applyCalls)
       /\ SubSeq(applyCalls', 1, Len(applyCalls)) = applyCalls]_vars

C4_Witness ==
    /\ cancelled /\ bulkPc = "done" /\ startedAtCancel = 1 /\ progress = 1
    /\ Len(applyCalls) = 1 /\ Len(GroupBy(batch)) = 2

\* ---- undo
Committing(op, res) ==
    \/ op = "changeCellToKind" /\ res = "applied"
    \/ op = "runDeleteAction"
    \/ op = "moveCellRange" /\ res = "applied"
    \/ op = "copyCellRange" /\ res = "applied"
    \/ op = "insertCellAtIndex"
    \/ op = "moveCellToIdx" /\ res = "true"

\* the step registers exactly one undo entry, and that entry holds the cells,
\* the focus and the selections of the state before the step
OneUndoEntryOfPreState ==
    /\ Len(undoStack') = Len(undoStack) + 1
    /\ SubSeq(undoStack', 1, Len(undoStack)) = undoStack
    /\ undoStack'[Len(undoStack')].cells = cells
    /\ undoStack'[Len(undoStack')].focus = focus
    /\ undoStack'[Len(undoStack')].selections = selections

\* undo puts back what the newest entry holds and removes the entry
UndoRestoresEntry ==
    /\ cells' = undoStack[Len(undoStack)].cells
    /\ focus' = undoStack[Len(undoStack)].focus
    /\ selections' = undoStack[Len(undoStack)].selections
    /\ Len(undoStack') = Len(undoStack) - 1

\* C5 (as stated): each committing invocation of changeCellToKind,
\* runDeleteAction, moveCellRange, copyCellRange, insertCellAtIndex or
\* moveCellToIdx registers exactly one undo entry, and undoing it restores the
\* cells, the focus and the selections of the state before the invocation.
C5_OneUndoEntry ==
    [][/\ (steps' = steps + 1 /\ Committing(last'.op, last'.res)) => OneUndoEntryOfPreState
       /\ (last'.op = "undo" /\ undoStack' # undoStack) => UndoRestoresEntry]_vars

\* C5 (amended): the same, with insertCellAtIndex counted only when it is
\* called with pushUndoStop = true; with pushUndoStop = false it registers no
\* undo entry.
C5_OneUndoEntryWhenPushed ==
    [][/\ (steps' = steps + 1 /\ Committing(last'.op, last'.res) /\ last'.push)
            => OneUndoEntryOfPreState
       /\ (steps' = steps + 1 /\ last'.op = "insertCellAtIndex" /\ ~last'.push)
            => undoStack' = undoStack
       /\ (last'.op = "undo" /\ undoStack' # undoStack) => UndoRestoresEntry]_vars

C5_Witness ==
    /\ last.op = "undo"
    /\ Len(cells) = 3 /\ Len(selections) = 2
    /\ nextHandle = 4
    /\ steps = 1

\* ---- moveCellToIdx
CellIn(cs, i) == IF i >= 0 /\ i < Len(cs) THEN cs[i + 1] ELSE Undefined

\* the cells [index, index + length) of before are the cells
\* [newIdx, newIdx + length) of after, in the same order, and the other
\* cells keep their relative order
Relocated(before, after, index, length, newIdx) ==
    LET moved == {CellIn(before, index + j).handle : j \in 0..(length - 1)}
    IN  /\ \A j \in 0..(length - 1) : CellIn(after, newIdx + j) = CellIn(before, index + j)
        /\ SelectSeq(after, LAMBDA c : c.handle \notin moved)
             = SelectSeq(before, LAMBDA c : c.handle \notin moved)
        /\ Len(after) = Len(before)

\* C6 (as stated): moveCellToIdx(index, length, newIdx), when a cell exists
\* at index, relocates exactly the cells [index, index + length) so that they
\* start at newIdx counted in the Document without them, keeps their order
\* and the relative order of the other cells.
C6_MoveRelocates ==
    [][(Invoked("moveCellToIdx") /\ CellAt(last'.idx) # Undefined)
         => Relocated(cells, cells', last'.idx, last'.len, last'.to)]_vars

\* C6 (amended): the same when, in addition, the whole range
\* [index, index + length) lies inside the Document and
\* newIdx <= cell count - length.
C6_MoveRelocatesInRange ==
    [][(/\ Invoked("moveCellToIdx") /\ CellAt(last'.idx) # Undefined
        /\ last'.idx + last'.len <= Len(cells)
        /\ last'.to + last'.len <= Len(cells))
         => (last'.res = "true" /\ Relocated(cells, cells', last'.idx, last'.len, last'.to))]_vars

C6_Witness ==
    /\ last.op = "moveCellToIdx" /\ last.res = "true"
    /\ last.idx = 0 /\ last.len = 2 /\ last.to = 1
    /\ Len(cells) = 3
    /\ cells[1].handle = 3 /\ cells[2].handle = 1 /\ cells[3].handle = 2

\* ---- silent no-ops
\* C7: every operation of cellOperations is a silent no-op when the editor
\* is read-only or has no Document: the Document and the Selection State are
\* unchanged and no error is raised.
C7_ReadOnlyNoOp ==
    [][(steps' = steps + 1 /\ (readOnly \/ ~hasModel))
         => (cells' = cells /\ focus' = focus /\ selections' = selections
             /\ pending' = pending /\ error' = error)]_vars

\* C8: no operation of cellOperations raises an error when it is given an
\* out-of-range cell index or range; the call returns without effect on the
\* Document.
C8_NoErrorOutOfRange ==
    [][(steps' = steps + 1 /\ last'.op \in {"joinNotebookCells", "joinCellsWithSurrounds"})
         => (error' = error /\ (last'.res # "staged" => cells' = cells))]_vars

\* ---- rejection of joins
\* C9: joinNotebookCells returns null for 'above' on a range starting at the
\* first cell and for 'below' on a range ending at the last cell; a UI
\* joinCellsWithSurrounds on such a cell changes neither the Document nor
\* the Selection State (and stages nothing).
C9_JoinBoundaryRejected ==
    [][/\ (/\ Invoked("joinNotebookCells")
           /\ \/ last'.dir = "above" /\ last'.idx = 0
              \/ last'.dir = "below" /\ last'.to = Len(cells))
            => last'.res = "null"
       /\ (/\ Invoked("joinCellsWithSurrounds") /\ last'.ui
           /\ \/ last'.dir = "above" /\ last'.idx = 0
              \/ last'.dir = "below" /\ last'.idx + 1 = Len(cells))
            => (/\ last'.res = "noop"
                /\ UNCHANGED <<cells, focus, selections, editing, pending, error>>)]_vars

C9_Witness ==
    /\ last.op = "joinCellsWithSurrounds" /\ last.ui /\ last.res = "noop"
    /\ ~readOnly /\ last.dir = "below"
    /\ Len(cells) = 3 /\ last.idx = 2

\* every cell of the range [s, e) and the neighbour in the direction has kind k
JoinKindsMatch(s, e, direction, k) ==
    /\ \A i \in s..(e - 1) : CellAt(i) # Undefined => CellAt(i).kind = k
    /\ CellAt(IF direction = "above" THEN s - 1 ELSE e).kind = k

JoinLoopJoins(i, direction) ==
    ~(\/ selections[i].end >= Len(cells) /\ direction = "below"
      \/ selections[i].start = 0 /\ direction = "above")

\* joinNotebookCells without a constraint returns null for the range
JoinReturnsNull(range, direction) ==
    \/ readOnly
    \/ GetCellsInRange(range) = <<>>
    \/ range.start = 0 /\ direction = "above"
    \/ range.end = Len(cells) /\ direction = "below"

C12_JoinRunOrder ==
    last.op = "joinCellsWithSurrounds" => last.res \in {"noop", "staged"}

\* C15: the edits a suspended join commits are applied to the Document they
\* were computed from: no other operation has changed the Document in between.
C15_NoStaleEdits ==
    [][(pending # <<>> /\ pending' = Tail(pending) /\ last'.op = "joinCommit")
         => Head(pending).base = cells]_vars

\* the cell edits of the batch for notebook r, in batch order
EditsOfNotebook(r) ==
    LET g == SelectSeq(batch, LAMBDA e : e.resource = r)
    IN  [j \in 1..Len(g) |-> g[j].cellEdit]

\* C16: every applyCellEdits call BulkCellEdits.apply makes on a notebook's
\* editor is handed all Replace and Move operations the batch holds for that
\* notebook, in the order of the batch.
C16_AllEditsApplied ==
    \A i \in 1..Len(applyCalls) :
        applyCalls[i].edits = EditsOfNotebook(applyCalls[i].resource)

\* split point sp lies exactly at the end of its line, the line not being empty
AtEndOfLine(sp) ==
    sp.column = GetLineLength(textBuffer, sp.lineNumber) + 1 /\ sp.column > 1

\* C13: when a split point lies exactly at the end of a line of the cell's
\* text, whichever line it is, the list computeCellLinesContents returns does
\* not end with an empty segment: its last element is non-empty text.
C13_NoEmptyTrailingSegment ==
    (/\ newLineModels.state = "list"
     /\ \E i \in 1..Len(splitPoints) : AtEndOfLine(splitPoints[i]))
      => newLineModels.list[Len(newLineModels.list)] # <<>>

\* C14: a lookup for a debug type without a registered factory does not fail:
\* createDebugAdapter returns undefined, substituteVariables resolves to the
\* config it was given, runInTerminal resolves to undefined.
C14_LookupWithoutFactory ==
    [][(lookup' # lookup /\ debugAdapterFactories[lookup'.type] = NoFactory)
         => /\ lookup'.op = "createDebugAdapter" => lookup'.kind = "undefined"
            /\ lookup'.op = "substituteVariables"
                 => lookup'.kind = "resolved" /\ lookup'.out = lookup'.config
            /\ lookup'.op = "runInTerminal"
                 => lookup'.kind = "resolved" /\ lookup'.out = "undefined"]_vars

C14_Witness ==
    /\ lookup.op = "substituteVariables" /\ lookup.kind = "resolved"
    /\ lookup.out = "launch"
    /\ Len(registrations) = 2 /\ registrations[1].disposed
    /\ debugAdapterFactories[lookup.type] = NoFactory

\* the registrations after i that are not disposed and have registered
\* another factory for the type
LaterRegistrations(i, type) ==
    {j \in (i + 1)..Len(registrations) :
        /\ type \in registrations[j].types /\ ~registrations[j].disposed
        /\ registrations[j].factory # registrations[i].factory}

\* C18: disposing a registration leaves alone the factory a later, undisposed
\* registration has installed for the same debug type: lookups for the type
\* still reach the later factory.
C18_DisposeOwnFactoriesOnly ==
    [][\A i \in 1..Len(registrations) :
          (/\ Len(registrations') = Len(registrations)
           /\ registrations'[i].disposed /\ ~registrations[i].disposed)
            => \A type \in registrations[i].types :
                  LaterRegistrations(i, type) # {}
                    => debugAdapterFactories'[type] =
                         registrations[CHOOSE j \in LaterRegistrations(i, type) :
                                          \A k \in LaterRegistrations(i, type) : k <= j].factory]_vars

\* C19: the context key debuggersAvailable equals hasEnabledDebuggers().
C19_DebuggersAvailableCurrent ==
    debuggersAvailable = HasEnabledDebuggers(debugAdapterFactories)

\* C17: for each endpoint id at most one telemetry service (with its client
\* process) is ever created, and all calls for the id that have their service
\* log through the same one.
C17_OneServicePerEndpoint ==
    /\ \A i, j \in 1..Len(telemetryCreated) :
          telemetryCreated[i] = telemetryCreated[j] => i = j
    /\ \A c, d \in 1..Len(telemetryCalls) :
          (/\ telemetryCalls[c].endpoint = telemetryCalls[d].endpoint
           /\ telemetryCalls[c].service # NoService
           /\ telemetryCalls[d].service # NoService)
            => telemetryCalls[c].service = telemetryCalls[d].service

\* the entries of the addEntry calls not disposed, in the order of the calls
\* from call key on, each with the content of its latest update
RECURSIVE LiveEntriesFrom(_)
LiveEntriesFrom(key) ==
    IF key > Len(statusAccessors) THEN <<>>
    ELSE (IF statusAccessors[key].disposed THEN <<>>
          ELSE <<[key |-> key, content |-> statusAccessors[key].latest]>>)
         \o LiveEntriesFrom(key + 1)

\* C20: createContentArea adds to the view model every entry added before
\* and not disposed, in the order of the addEntry calls and with the content
\* of its latest update, and empties pendingEntries; from then on
\* pendingEntries stays empty and addEntry adds its entry to the view model.
C20_PendingEntriesCreated ==
    [][/\ (statusElement' /\ ~statusElement)
            => viewModelEntries' = LiveEntriesFrom(1)
       /\ statusElement' => pendingEntries' = <<>>
       /\ (statusElement /\ Len(statusAccessors') = Len(statusAccessors) + 1)
            => /\ Len(viewModelEntries') = Len(viewModelEntries) + 1
               /\ viewModelEntries'[Len(viewModelEntries')].key = Len(statusAccessors')
               /\ SubSeq(viewModelEntries', 1, Len(viewModelEntries)) = viewModelEntries]_vars

C20_Witness ==
    /\ statusElement
    /\ Len(statusAccessors) = 2
    /\ statusAccessors[1].pending /\ statusAccessors[1].linked
    /\ statusAccessors[1].latest # statusAccessors[1].entry
    /\ ~statusAccessors[2].pending
    /\ Len(viewModelEntries) = 2

\* the entry of addEntry call key is in the view model
InViewModel(entries, key) == \E i \in 1..Len(entries) : entries[i].key = key

\* C21: an accessor stays valid across the creation of the status bar: a
\* dispose before creation takes the entry off pendingEntries, an update or
\* a dispose after creation acts on the view entry and on no other, a
\* disposed accessor's entry is never in the view model afterwards, and a
\* second dispose changes neither the view model nor pendingEntries.
C21_AccessorValidAcrossCreation ==
    [][/\ \A key \in 1..Len(statusAccessors') :
            statusAccessors'[key].disposed => ~InViewModel(viewModelEntries', key)
       /\ (statusLast'.op = "dispose" /\ ~statusElement)
            => /\ \A i \in 1..Len(pendingEntries') : pendingEntries'[i] # statusLast'.key
               /\ viewModelEntries' = viewModelEntries
       /\ (statusLast'.op = "update" /\ statusElement /\ ~statusLast'.again)
            => /\ Len(viewModelEntries') = Len(viewModelEntries)
               /\ \A i \in 1..Len(viewModelEntries) :
                    IF viewModelEntries[i].key = statusLast'.key
                    THEN /\ viewModelEntries'[i].key = statusLast'.key
                         /\ viewModelEntries'[i].content = statusAccessors'[statusLast'.key].latest
                    ELSE viewModelEntries'[i] = viewModelEntries[i]
               /\ InViewModel(viewModelEntries, statusLast'.key)
       /\ (statusLast'.op = "dispose" /\ statusElement /\ ~statusLast'.again)
            => /\ InViewModel(viewModelEntries, statusLast'.key)
               /\ viewModelEntries' =
                    SelectSeq(viewModelEntries, LAMBDA e : e.key # statusLast'.key)
       /\ (statusLast'.op = "dispose" /\ statusLast'.again)
            => /\ viewModelEntries' = viewModelEntries
               /\ pendingEntries' = pendingEntries]_vars

C21_Witness ==
    /\ statusElement
    /\ Len(statusAccessors) = 2
    /\ statusAccessors[1].pending /\ ~statusAccessors[1].linked /\ statusAccessors[1].disposed
    /\ statusAccessors[2].pending /\ statusAccessors[2].linked /\ statusAccessors[2].disposed
    /\ statusLast = [op |-> "dispose", key |-> 2, again |-> TRUE]

\* ---- runDeleteAction
\* the handles of the cells the ranges cover
HandlesInRanges(cs, ranges) ==
    {cs[i].handle : i \in {j \in 1..Len(cs) :
        \E r \in 1..Len(ranges) : ranges[r].start <= j - 1 /\ j - 1 < ranges[r].end}}

\* a single-cell focus and selection on the cell with handle h
OnCell(cs, f, sels, h) ==
    /\ f.end = f.start + 1
    /\ f.start >= 0 /\ f.start < Len(cs)
    /\ cs[f.start + 1].handle = h
    /\ sels = <<f>>

\* C22: runDeleteAction on a cell inside a selection deletes exactly the
\* cells of the selection ranges; focus and selection end on the cell that
\* followed the containing selection, else on the last cell, else on [0,0).
C22_DeleteSelection ==
    [][(Invoked("runDeleteAction") /\ last'.res = "selection")
         => LET cs == ContainingSelection(last'.idx)
            IN  /\ cells' = SelectSeq(cells,
                        LAMBDA c : c.handle \notin HandlesInRanges(cells, selections))
                /\ IF cs.end < Len(cells)
                   THEN OnCell(cells', focus', selections', cells[cs.end + 1].handle)
                   ELSE IF cells' # <<>>
                   THEN OnCell(cells', focus', selections', cells'[Len(cells')].handle)
                   ELSE focus' = Rng(0, 0) /\ selections' = <<Rng(0, 0)>>]_vars

\* the range denotes the same cells in cs2 as r1 does in cs1
SameCells(cs1, r1, cs2, r2) ==
    /\ r2.end - r2.start = r1.end - r1.start
    /\ \A i \in 1..(r1.end - r1.start) :
          /\ r1.start + i >= 1 /\ r1.start + i <= Len(cs1)
          /\ r2.start + i >= 1 /\ r2.start + i <= Len(cs2)
          /\ cs2[r2.start + i].handle = cs1[r1.start + i].handle

\* C23: runDeleteAction on a cell outside every selection deletes that cell
\* alone; every selection range denotes the same cells afterwards, shifted
\* down by one when it lies behind the deleted index; the focus stays on its
\* cell, and when the focused cell is the deleted one it moves to the cell
\* now at that index, or to the previous cell when the last cell was deleted.
C23_DeleteOutsideSelections ==
    [][(Invoked("runDeleteAction") /\ last'.res = "single")
         => LET target == last'.idx
            IN  /\ cells' = SubSeq(cells, 1, target) \o SubSeq(cells, target + 2, Len(cells))
                /\ Len(selections') = Len(selections)
                /\ \A i \in 1..Len(selections) :
                      /\ SameCells(cells, selections[i], cells', selections'[i])
                      /\ selections'[i] =
                            IF selections[i].start > target
                            THEN Rng(selections[i].start - 1, selections[i].end - 1)
                            ELSE selections[i]
                /\ IF focus = Rng(target, target + 1)
                   THEN IF target = Len(cells) - 1
                        THEN SameCells(cells, Rng(target - 1, target), cells', focus')
                        ELSE SameCells(cells, Rng(target + 1, target + 2), cells', focus')
                               /\ focus' = focus
                   ELSE ValidRange(focus, Len(cells)) => SameCells(cells, focus, cells', focus')]_vars

\* ---- moveCellRange
\* the block of moveCellRange touches the Document boundary in the direction
AtBoundary(range, direction) ==
    \/ direction = "up" /\ range.start = 0
    \/ direction = "down" /\ range.end >= Len(cells)

\* C24: from an index-valid first selection range, moveCellRange moves the
\* block by one position past its neighbour, keeps the block's order and
\* selects the block at its new indexes; with no range, an empty range or a
\* block at the boundary, Document, focus and selections stay as they are.
C24_MoveBlock ==
    [][(Invoked("moveCellRange") /\ hasModel /\ ~readOnly)
         => IF selections = <<>>
            THEN UNCHANGED <<cells, focus, selections>>
            ELSE LET range == selections[1]
                     s == range.start
                     e == range.end
                 IN  ValidRange(range, Len(cells)) =>
                       IF s = e \/ AtBoundary(range, last'.dir)
                       THEN UNCHANGED <<cells, focus, selections>>
                       ELSE /\ last'.res = "applied"
                            /\ cells' =
                                 IF last'.dir = "up"
                                 THEN SubSeq(cells, 1, s - 1) \o SubSeq(cells, s + 1, e)
                                        \o <<cells[s]>> \o SubSeq(cells, e + 1, Len(cells))
                                 ELSE SubSeq(cells, 1, s) \o <<cells[e + 1]>>
                                        \o SubSeq(cells, s + 1, e)
                                        \o SubSeq(cells, e + 2, Len(cells))
                            /\ Len(selections') = 1
                            /\ SameCells(cells, range, cells', selections'[1])]_vars

C24_Witness ==
    /\ last.op = "moveCellRange" /\ last.res = "applied" /\ last.dir = "up"
    /\ selections = <<Rng(0, 2)>>
    /\ Len(cells) = 3
    /\ cells[1].handle = 2 /\ cells[2].handle = 3 /\ cells[3].handle = 1

\* ---- copyCellRange
\* cs2 is cs1 with clones of the cells of [s, e) inserted at index e
ClonesInserted(cs1, cs2, s, e) ==
    /\ Len(cs2) = Len(cs1) + (e - s)
    /\ SubSeq(cs2, 1, e) = SubSeq(cs1, 1, e)
    /\ SubSeq(cs2, e + (e - s) + 1, Len(cs2)) = SubSeq(cs1, e + 1, Len(cs1))
    /\ \A i \in 1..(e - s) :
          /\ cs2[e + i].kind = cs1[s + i].kind
          /\ cs2[e + i].text = cs1[s + i].text
          /\ cs2[e + i].handle \notin Handles(cs1)

\* C26: from an index-valid range, copyCellRange inserts clones of the
\* range's cells directly after the range; 'up' and every call from the UI
\* leave focus and selections as they are; 'down' not from the UI selects
\* exactly the clones and shifts the focus by their number.
C26_CopyFrame ==
    [][(Invoked("copyCellRange") /\ hasModel /\ ~readOnly
          /\ (last'.ui \/ selections # <<>>))
         => LET range == IF last'.ui THEN Rng(last'.idx, last'.idx + 1) ELSE selections[1]
                n == range.end - range.start
            IN  (ValidRange(range, Len(cells)) /\ n > 0) =>
                  /\ last'.res = "applied"
                  /\ ClonesInserted(cells, cells', range.start, range.end)
                  /\ IF last'.dir = "up" \/ last'.ui
                     THEN focus' = focus /\ selections' = selections
                     ELSE /\ selections' = <<Rng(range.end, range.end + n)>>
                          /\ focus' = Rng(focus.start + n, focus.end + n)]_vars

C26_Witness ==
    /\ last.op = "copyCellRange" /\ last.res = "applied" /\ last.dir = "down" /\ ~last.ui
    /\ Len(cells) = 4
    /\ selections = <<Rng(2, 4)>>
    /\ focus = Rng(3, 4)
    /\ cells[3].handle = 3 /\ cells[4].handle = 4

\* ---- a committed join
\* the text of the surviving cell at index p after the n cells behind it
\* were joined to it: each text preceded by its end-of-line sequence
JoinedText(cs, p, n) ==
    cs[p + 1].text \o Concat([i \in 1..n |-> <<EOL>> \o cs[p + 1 + i].text])

\* C25: the join of a cell started from the UI, committed on the Document it
\* was computed from, leaves the surviving cell with its text followed by
\* the joined cells' texts, removes the range.end - range.start joined cells
\* and no others, and ends with focus and selection on the surviving cell.
C25_JoinResult ==
    [][(pending # <<>> /\ pending' = Tail(pending)
          /\ Head(pending).ui /\ Head(pending).base = cells)
         => LET st == Head(pending)
                p == st.cellEdits[1].index - 1
                n == st.cellEdits[1].count
            IN  /\ cells[p + 1].handle = st.cell
                /\ cells' = SubSeq(cells, 1, p)
                              \o <<[cells[p + 1] EXCEPT !.text = JoinedText(cells, p, n)]>>
                              \o SubSeq(cells, p + n + 2, Len(cells))
                /\ focus' = Rng(p, p + 1)
                /\ selections' = <<Rng(p, p + 1)>>]_vars

\* ---- LineDataEventAddon
\* the row at which the logical line of row lineIndex starts: the nearest row
\* at or above it that is not a wrapped continuation, or the top of the buffer
LogicalLineStart(lines, lineIndex) ==
    CHOOSE s \in 0..lineIndex :
        /\ s = 0 \/ ~lines[s + 1].isWrapped
        /\ \A j \in (s + 1)..lineIndex : lines[j + 1].isWrapped

\* the logical line ending at row lineIndex: its rows in buffer order, the
\* blanks at the end of the last row left out
LogicalLine(lines, lineIndex) ==
    LET s == LogicalLineStart(lines, lineIndex)
    IN  Concat([j \in 1..(lineIndex - s) |-> lines[s + j].text])
            \o TrimRight(lines[lineIndex + 1].text)

\* C27: on a line feed the activated addon fires onLineData at most once, and
\* it fires exactly when the row now under the cursor is not a wrapped
\* continuation; the event carries the logical line that ended on the
\* previous row, all its rows in buffer order.
C27_LineFeedLineData ==
    [][(termLast'.op = "lineFeed" /\ xtermActive)
         => /\ termLast'.fired <= 1
            /\ termLast'.fired = 1 <=> ~termLines'[termCursor'.y + 1].isWrapped
            /\ termLast'.fired = 1
                 => termLast'.data = LogicalLine(termLines', termCursor'.y - 1)]_vars

C27_Witness ==
    /\ termLast.op = "lineFeed" /\ termLast.fired = 1 /\ termLast.delivered = 1
    /\ termLast.data = <<1, 2, 3>>
    /\ termLines[termCursor.y].isWrapped

\* C28: when an activated addon is disposed, the listeners of onLineData
\* receive one last event, carrying the line under the cursor.
C28_DisposeFlushesLastLine ==
    [][(termLast'.op = "dispose" /\ xtermActive)
         => /\ termLast'.delivered = 1
            /\ termLast'.data = LogicalLine(termLines, termCursor.y)]_vars

\* C29: setOperatingSystem before activate changes nothing and leaves the
\* one-shot unused; the first call after activate sets the operating system
\* and registers a CSI 'H' handler only for Windows; later calls change
\* nothing; at most one handler is ever registered.
C29_SetOperatingSystemOnce ==
    [][/\ termLast'.op = "setOperatingSystem"
            => IF xtermActive /\ ~isOsSet
               THEN /\ isOsSet' /\ fixedOs' = termLast'.os
                    /\ csiRegistered' =
                          csiRegistered + (IF termLast'.os = "Windows" THEN 1 ELSE 0)
               ELSE UNCHANGED <<isOsSet, fixedOs, csiRegistered, csiHandlers>>
       /\ ~xtermActive' => ~isOsSet' /\ csiRegistered' = 0
       /\ csiRegistered' <= 1
       /\ csiRegistered' = 1 => fixedOs' = "Windows"]_vars

C29_Witness ==
    /\ xtermActive /\ isOsSet
    /\ fixedOs = "Linux"
    /\ termLast.op = "setOperatingSystem" /\ termLast.os = "Windows"
    /\ csiRegistered = 0

====
